---- MODULE Spec2Model ----
(***************************************************************************)
(* A model of the two provisioning scripts of the repository:              *)
(*   src/setup_oracle.py     creates an instance and installs Oracle on it *)
(*   src/setup_dataguard.py  configures Data Guard between two instances   *)
(* Identifiers, names and paths are sequences of one-character strings, so *)
(* that split("-"), re.match and SQL LIKE are computed character by        *)
(* character as the code computes them.                                    *)
(***************************************************************************)
EXTENDS Integers, Sequences, FiniteSets, TLC

VARIABLES
    script,        \* which script runs: "setup_dataguard" or "setup_oracle"
    args,          \* the parsed command line (argparse namespace)
    pc,            \* position in main()
    stage,         \* index of the stage of main() that runs (0: none)
    sub,           \* position inside a stage that issues several commands
    project,       \* main(): project
    zone,          \* main(): zone
    names,         \* main(): the derived names (db_name, disk groups, ...)
    ips,           \* main(): primary_ip, standby_ip
    calls,         \* every command issued through run_cmd, in order
    exit_status,   \* the process exit status (-1 while running)
    error,         \* the exception that ended the run ("" if none)
    pwfile,        \* instance -> content of $ORACLE_HOME/dbs/orapw<db_name>
    tmpfile,       \* instance -> content of /tmp/orapw<db_name>
    tmp_local,     \* content of the staging file on the control host
    md5,           \* sync_password_file_after_duplication: its md5 locals
    fresh,         \* the next never-seen file content
    elapsed,       \* wait_for_instance: time.time() - start, in seconds
    probe_secs,    \* how long a probe of an instance that is not ready takes
    logs,          \* redo-log repair: V$LOG/V$LOGFILE, group -> row
    standby_logs,  \* redo-log repair: V$STANDBY_LOG, group -> row
    plsql,         \* redo-log repair: position in the SQL script and its locals
    standby_db,    \* remove script: what exists of the standby's old database
    shell_log,     \* remove script: per run, the commands that failed and the exit status
    report,        \* validation: the checks performed, in order, and their results
    member,        \* path classifier: the V$LOGFILE.MEMBER under test
    flagged,       \* path classifier: what each pass of the repair made of it
    primary_db     \* the primary database: its Data Guard parameters

runVars  == <<script, args, pc, stage, sub, project, zone, names, ips, calls,
              exit_status, error>>
credVars == <<pwfile, tmpfile, tmp_local, md5, fresh>>
redoVars == <<logs, standby_logs, plsql>>
shellVars == <<standby_db, shell_log, report>>
pathVars == <<member, flagged>>
waitVars == <<elapsed, probe_secs>>
dbVars   == <<primary_db>>
vars     == <<script, args, pc, stage, sub, project, zone, names, ips, calls,
              exit_status, error, pwfile, tmpfile, tmp_local, md5, fresh,
              elapsed, probe_secs, logs, standby_logs, plsql, standby_db,
              shell_log, report, member, flagged, primary_db>>

---------------------------------------------------------------------------
(* Strings *)

Str_ora    == <<"o", "r", "a">>
Str_ORA    == <<"O", "R", "A">>
Str_DGORA  == <<"D", "G">> \o Str_ORA
Str_STBY   == <<"_", "S", "T", "B", "Y">>
Str_empty  == <<>>

IsDigit(c) == c \in {"0", "1", "2", "3", "4", "5", "6", "7", "8", "9"}

\* The index of the first sep in s at or after position i, or 0.
RECURSIVE Find(_, _, _)
Find(s, sep, i) ==
    IF i > Len(s) THEN 0
    ELSE IF s[i] = sep THEN i
    ELSE Find(s, sep, i + 1)

\* Python's s.split(sep) for a one-character sep: the pieces between the
\* occurrences of sep, empty pieces included.
RECURSIVE Split(_, _)
Split(s, sep) ==
    LET k == Find(s, sep, 1) IN
    IF k = 0 THEN <<s>>
    ELSE <<SubSeq(s, 1, k - 1)>> \o Split(SubSeq(s, k + 1, Len(s)), sep)

\* The longest run of digits of s that starts at position i (regex \d+, greedy).
RECURSIVE DigitRun(_, _)
DigitRun(s, i) ==
    IF i <= Len(s) /\ IsDigit(s[i]) THEN <<s[i]>> \o DigitRun(s, i + 1)
    ELSE <<>>

\* t is a prefix of s.
StartsWith(s, t) == Len(s) >= Len(t) /\ SubSeq(s, 1, Len(t)) = t

\* t occurs in s (the shell glob *t*).
Contains(s, t) ==
    \E i \in 0..(Len(s) - Len(t)) : SubSeq(s, i + 1, i + Len(t)) = t

---------------------------------------------------------------------------
(* Name resolution *)

\* setup_oracle.py parse_instance_number: re.match(r"ora-(\d+)", instance)
\* anchors at the start only; group(1) is the digit run after "ora-".
\* ok = FALSE is the ValueError.
parse_instance_number(instance) ==
    LET prefix == Str_ora \o <<"-">>
        num    == DigitRun(instance, Len(prefix) + 1)
    IN  IF StartsWith(instance, prefix) /\ num # <<>>
        THEN [ok |-> TRUE, num |-> num]
        ELSE [ok |-> FALSE, num |-> <<>>]

\* setup_oracle.py get_cdb_diskgroup_name and get_db_name
get_cdb_diskgroup_name(instance) == Str_DGORA \o parse_instance_number(instance).num
get_db_name(instance) == Str_ORA \o parse_instance_number(instance).num

\* setup_dataguard.py main: args.primary.split("-")[1]; ok = FALSE is the
\* IndexError of a name without "-".
split_num(instance) ==
    LET parts == Split(instance, "-")
    IN  IF Len(parts) >= 2 THEN [ok |-> TRUE, num |-> parts[2]]
        ELSE [ok |-> FALSE, num |-> <<>>]

NoNames ==
    [primary_num |-> <<>>, standby_num |-> <<>>, db_name |-> <<>>,
     primary_db_unique_name |-> <<>>, standby_db_unique_name |-> <<>>,
     primary_diskgroup |-> <<>>, standby_diskgroup |-> <<>>]

\* The names, had the standby's own number been used for its unique name.
derive_names_own(primary_num, standby_num) ==
    [primary_num |-> primary_num, standby_num |-> standby_num,
     db_name |-> Str_ORA \o primary_num,
     primary_db_unique_name |-> Str_ORA \o primary_num,
     standby_db_unique_name |-> Str_ORA \o standby_num \o Str_STBY,
     primary_diskgroup |-> Str_DGORA \o primary_num,
     standby_diskgroup |-> Str_DGORA \o standby_num]

\* setup_dataguard.py main: the names derived from the two numbers.
derive_names(primary_num, standby_num) ==
    [primary_num |-> primary_num, standby_num |-> standby_num,
     db_name |-> Str_ORA \o primary_num,
     primary_db_unique_name |-> Str_ORA \o primary_num,
     standby_db_unique_name |-> Str_ORA \o primary_num \o Str_STBY,
     primary_diskgroup |-> Str_DGORA \o primary_num,
     standby_diskgroup |-> Str_DGORA \o standby_num]

\* setup_oracle.py main: cdb_diskgroup and db_name of the one instance, kept in
\* the fields of the primary.
oracle_names(instance) ==
    [NoNames EXCEPT !.primary_num = parse_instance_number(instance).num,
                    !.db_name = get_db_name(instance),
                    !.primary_diskgroup = get_cdb_diskgroup_name(instance)]

---------------------------------------------------------------------------
(* Bounds and input sets *)

\* The longest tail (what follows the prefix) of an identifier that the
\* name-resolution specification enumerates.
MaxTail == 3

\* The paths the classifier specification enumerates: up to MaxHead
\* characters, MaxFill times "x", up to MaxEnd characters.
MaxHead == 3
MaxFill == 8
MaxEnd == 2

\* The repaired database: at most MaxOnline online log groups and
\* MaxStandbyBefore standby log groups before the repair, and at most
\* MaxFaults statements that the database refuses during one repair.
MaxOnline == 3
MaxStandbyBefore == 5
MaxFaults == 1

\* The seconds a probe of an unready instance takes in the workflow
\* specification (the wait specification takes shorter ones too).
SlowProbe == 140

Id_ora1 == Str_ora \o <<"-", "1">>
Id_ora2 == Str_ora \o <<"-", "2">>

\* The identifiers of the workflow specification.
RunIds == {Id_ora1, Id_ora2}

\* Exit statuses of a gcloud command: 0, a failing remote command (1), an
\* unreachable target (255).
ReturnCodes == {0, 1, 255}

\* What "gcloud config get-value" prints: nothing when the key is unset.
ConfigValues == {"", "ambient"}

---------------------------------------------------------------------------
(* The stages of main(), in declaration order *)

\* setup_dataguard.py main: each call of a stage function, the flag whose
\* "if not args.<flag>" block holds it, and the instance it is given.
DGStages == <<
    [fn |-> "configure_bash_profiles",              skip |-> "skip_primary_config", role |-> "primary"],
    [fn |-> "configure_bash_profiles",              skip |-> "skip_primary_config", role |-> "standby"],
    [fn |-> "configure_tns_entries",                skip |-> "skip_primary_config", role |-> "primary"],
    [fn |-> "configure_tns_entries",                skip |-> "skip_primary_config", role |-> "standby"],
    [fn |-> "configure_static_listener",            skip |-> "skip_primary_config", role |-> "primary"],
    [fn |-> "configure_static_listener",            skip |-> "skip_primary_config", role |-> "standby"],
    [fn |-> "configure_primary_for_dataguard",      skip |-> "skip_primary_config", role |-> "primary"],
    [fn |-> "setup_password_file",                  skip |-> "skip_primary_config", role |-> "primary"],
    [fn |-> "remove_standby_database",              skip |-> "skip_duplication",    role |-> "standby"],
    [fn |-> "create_standby_pfile",                 skip |-> "skip_duplication",    role |-> "standby"],
    [fn |-> "start_standby_nomount",                skip |-> "skip_duplication",    role |-> "standby"],
    [fn |-> "duplicate_database",                   skip |-> "skip_duplication",    role |-> "standby"],
    [fn |-> "sync_password_file_after_duplication", skip |-> "skip_duplication",    role |-> "standby"],
    [fn |-> "fix_standby_redo_logs",                skip |-> "skip_duplication",    role |-> "standby"],
    [fn |-> "register_standby_with_cluster",        skip |-> "skip_duplication",    role |-> "standby"],
    [fn |-> "start_managed_recovery",               skip |-> "none",                role |-> "standby"],
    [fn |-> "enable_log_shipping",                  skip |-> "none",                role |-> "primary"],
    [fn |-> "validate_dataguard",                   skip |-> "none",                role |-> "primary"] >>

\* setup_oracle.py main
ORStages == <<
    [fn |-> "create_instance",          skip |-> "skip_create",  role |-> "instance"],
    [fn |-> "wait_for_instance",        skip |-> "skip_create",  role |-> "instance"],
    [fn |-> "configure_kernel",         skip |-> "skip_kernel",  role |-> "instance"],
    [fn |-> "wait_for_instance",        skip |-> "skip_kernel",  role |-> "instance"],
    [fn |-> "setup_prerequisites",      skip |-> "skip_install", role |-> "instance"],
    [fn |-> "create_config_files",      skip |-> "skip_install", role |-> "instance"],
    [fn |-> "install_oracle",           skip |-> "skip_install", role |-> "instance"],
    [fn |-> "configure_oracle_sga",     skip |-> "skip_install", role |-> "instance"],
    [fn |-> "configure_asmfd",          skip |-> "skip_asmfd",   role |-> "instance"],
    [fn |-> "configure_asm_diskstring", skip |-> "skip_asmfd",   role |-> "instance"],
    [fn |-> "validate_setup",           skip |-> "none",         role |-> "instance"] >>

StagesOf(sc) == IF sc = "setup_dataguard" THEN DGStages ELSE ORStages
Stages == StagesOf(script)

\* The "if not args.skip_...:" guard of main() around stage i.
SkippedNever(i) == FALSE
Skipped(i) == Stages[i].skip # "none" /\ args[Stages[i].skip]

\* The first stage after stage i that main() does not skip; Len(Stages) + 1
\* when main() runs off its end.
RECURSIVE NextStage(_)
NextStage(i) ==
    IF i + 1 > Len(Stages) THEN Len(Stages) + 1
    ELSE IF Skipped(i + 1) THEN NextStage(i + 1)
    ELSE i + 1

\* The instance a stage is given.
Target(role) ==
    IF role = "primary" THEN args.primary
    ELSE IF role = "standby" THEN args.standby
    ELSE args.instance

At(fn) == pc = "stages" /\ stage \in 1..Len(Stages) /\ Stages[stage].fn = fn

---------------------------------------------------------------------------
(* Running commands *)

\* One command issued through run_cmd: the function that issued it, the kind
\* of gcloud command, what the command does (the function's name when it
\* issues only one), the stage of main() it belongs to (0: none), the
\* instance, the derived names it was given, and the exit status it ended
\* with.
Call(fn, op, target, params, rc) ==
    [fn |-> fn, op |-> op, cmd |-> fn, stage |-> stage, target |-> target,
     params |-> params, rc |-> rc]

\* run_cmd: subprocess.run(check=check) raises CalledProcessError on a
\* non-zero exit status exactly when check is set.
run_cmd_raises_never(check, rc) == FALSE
run_cmd_raises(check, rc) == check /\ rc # 0

\* gcloud_ssh passes check=True; gcloud_ssh_capture, gcloud_scp,
\* get_instance_ip and get_gcloud_config leave run_cmd's default, True.
gcloud_ssh_check_off == FALSE
gcloud_ssh_check == TRUE
default_check_off == FALSE
default_check == TRUE

\* An uncaught exception (or sys.exit(1)) ends the process with status 1.
Raise(e) == pc' = "done" /\ exit_status' = 1 /\ error' = e

\* The stage function returned: main() goes on to the next stage it does not
\* skip, or returns, and the process ends with status 0.
Advance ==
    LET n == NextStage(stage) IN
    /\ stage' = n
    /\ sub' = 0
    /\ IF n > Len(Stages)
       THEN pc' = "done" /\ exit_status' = 0 /\ error' = ""
       ELSE UNCHANGED <<pc, exit_status, error>>

\* A stage function that issues one gcloud_ssh command and returns; the
\* command leaves the primary database as db when it ran (exit status 0).
SshDb(fn, params, db) ==
    /\ At(fn)
    /\ \E rc \in ReturnCodes :
         /\ calls' = Append(calls, Call(fn, "ssh", Target(Stages[stage].role), params, rc))
         /\ primary_db' = IF rc = 0 THEN db ELSE primary_db
         /\ IF run_cmd_raises(gcloud_ssh_check, rc)
            THEN Raise("CalledProcessError") /\ UNCHANGED <<stage, sub>>
            ELSE Advance
    /\ UNCHANGED <<script, args, project, zone, names, ips>>
    /\ UNCHANGED <<credVars, waitVars, redoVars, shellVars, pathVars>>

\* A stage function that issues one gcloud_ssh command and returns.
Ssh(fn, params) == SshDb(fn, params, primary_db)

---------------------------------------------------------------------------
(* main(): configuration and name resolution *)

\* The order of main()'s steps before the stages: setup_oracle.py parses the
\* instance name first, setup_dataguard.py resolves project and zone first.
AfterNames == IF script = "setup_oracle" THEN "project" ELSE "ip_primary"
AfterCheck ==
    IF script = "setup_dataguard" THEN "names"
    ELSE IF args.delete THEN "delete"
    ELSE "stages"

\* project = args.project or get_gcloud_config("project")
main_project ==
    /\ pc = "project"
    /\ IF args.project # ""
       THEN /\ project' = args.project
            /\ pc' = "zone"
            /\ UNCHANGED <<calls, exit_status, error>>
       ELSE \E rc \in {0, 1}, out \in ConfigValues :
            /\ calls' = Append(calls, Call("get_gcloud_config", "config", <<>>, <<>>, rc))
            /\ IF run_cmd_raises(default_check, rc)
               THEN Raise("CalledProcessError") /\ UNCHANGED project
               ELSE project' = out /\ pc' = "zone" /\ UNCHANGED <<exit_status, error>>
    /\ UNCHANGED <<script, args, stage, sub, zone, names, ips>>
    /\ UNCHANGED <<credVars, waitVars, redoVars, shellVars, pathVars, dbVars>>

\* zone = args.zone or get_gcloud_config("compute/zone")
main_zone ==
    /\ pc = "zone"
    /\ IF args.zone # ""
       THEN /\ zone' = args.zone
            /\ pc' = "check"
            /\ UNCHANGED <<calls, exit_status, error>>
       ELSE \E rc \in {0, 1}, out \in ConfigValues :
            /\ calls' = Append(calls, Call("get_gcloud_config", "config", <<>>, <<>>, rc))
            /\ IF run_cmd_raises(default_check, rc)
               THEN Raise("CalledProcessError") /\ UNCHANGED zone
               ELSE zone' = out /\ pc' = "check" /\ UNCHANGED <<exit_status, error>>
    /\ UNCHANGED <<script, args, stage, sub, project, names, ips>>
    /\ UNCHANGED <<credVars, waitVars, redoVars, shellVars, pathVars, dbVars>>

\* "if not project" or "if not zone": an empty string is not a configuration.
config_missing_project_only(proj, zn) == proj = ""
config_missing(proj, zn) == proj = "" \/ zn = ""

\* if not project: sys.exit(1); if not zone: sys.exit(1)
main_check ==
    /\ pc = "check"
    /\ IF config_missing(project, zone)
       THEN Raise("SystemExit") /\ UNCHANGED stage
       ELSE /\ pc' = AfterCheck
            /\ stage' = IF AfterCheck = "stages" THEN NextStage(0) ELSE stage
            /\ UNCHANGED <<exit_status, error>>
    /\ UNCHANGED <<script, args, sub, project, zone, names, ips, calls>>
    /\ UNCHANGED <<credVars, waitVars, redoVars, shellVars, pathVars, dbVars>>

\* setup_dataguard.py main: primary_num, standby_num and the names built from
\* them; split("-")[1] raises IndexError when the name has no "-".
dataguard_names ==
    /\ pc = "names" /\ script = "setup_dataguard"
    /\ LET p == split_num(args.primary)
           s == split_num(args.standby)
       IN  IF p.ok /\ s.ok
           THEN /\ names' = derive_names(p.num, s.num)
                /\ pc' = AfterNames
                /\ UNCHANGED <<exit_status, error>>
           ELSE Raise("IndexError") /\ UNCHANGED names
    /\ UNCHANGED <<script, args, stage, sub, project, zone, ips, calls>>
    /\ UNCHANGED <<credVars, waitVars, redoVars, shellVars, pathVars, dbVars>>

\* setup_oracle.py main: get_cdb_diskgroup_name and get_db_name; the ValueError
\* of parse_instance_number is logged and the process exits with status 1.
oracle_main_names ==
    /\ pc = "names" /\ script = "setup_oracle"
    /\ IF parse_instance_number(args.instance).ok
       THEN /\ names' = oracle_names(args.instance)
            /\ pc' = AfterNames
            /\ UNCHANGED <<exit_status, error>>
       ELSE Raise("SystemExit") /\ UNCHANGED names
    /\ UNCHANGED <<script, args, stage, sub, project, zone, ips, calls>>
    /\ UNCHANGED <<credVars, waitVars, redoVars, shellVars, pathVars, dbVars>>

\* What "gcloud compute instances describe" prints for an instance: its
\* internal address.
IpOf(instance) == <<"i", "p", ":">> \o instance

\* primary_ip = get_instance_ip(args.primary, zone, project), then the standby's
get_instance_ip ==
    /\ pc \in {"ip_primary", "ip_standby"}
    /\ LET role == IF pc = "ip_primary" THEN "primary" ELSE "standby" IN
       \E rc \in {0, 1} :
         /\ calls' = Append(calls, Call("get_instance_ip", "describe", Target(role), <<>>, rc))
         /\ IF run_cmd_raises(default_check, rc)
            THEN Raise("CalledProcessError") /\ UNCHANGED <<ips, stage>>
            ELSE /\ ips' = [ips EXCEPT ![role] = IpOf(Target(role))]
                 /\ pc' = IF pc = "ip_primary" THEN "ip_standby" ELSE "stages"
                 /\ stage' = IF pc = "ip_primary" THEN stage ELSE NextStage(0)
                 /\ UNCHANGED <<exit_status, error>>
    /\ UNCHANGED <<script, args, sub, project, zone, names>>
    /\ UNCHANGED <<credVars, waitVars, redoVars, shellVars, pathVars, dbVars>>

---------------------------------------------------------------------------
(* setup_dataguard.py: the stages that issue one command *)

configure_bash_profiles == Ssh("configure_bash_profiles", <<>>)

configure_tns_entries ==
    Ssh("configure_tns_entries",
        <<names.db_name, names.primary_db_unique_name,
          names.standby_db_unique_name, ips.primary, ips.standby>>)

\* main() gives the primary its unique name and the standby its own.
configure_static_listener ==
    Ssh("configure_static_listener",
        <<names.db_name,
          IF stage \in 1..Len(Stages) /\ Stages[stage].role = "primary"
          THEN names.primary_db_unique_name
          ELSE names.standby_db_unique_name>>)

\* configure_primary_for_dataguard: LOG_ARCHIVE_CONFIG='DG_CONFIG=(
\* {db_unique_name},{standby_db_unique_name})' and
\* LOG_ARCHIVE_DEST_STATE_2=DEFER, in force when the script ran (exit
\* status 0).
primary_dest_state_2_enabled == "ENABLE"
primary_dest_state_2 == "DEFER"

configure_primary_for_dataguard ==
    SshDb("configure_primary_for_dataguard",
          <<names.db_name, names.primary_db_unique_name,
            names.standby_db_unique_name, ips.primary, ips.standby>>,
          [dg_config |-> <<names.primary_db_unique_name,
                           names.standby_db_unique_name>>,
           dest_state_2 |-> primary_dest_state_2])

create_standby_pfile ==
    Ssh("create_standby_pfile",
        <<names.db_name, names.standby_db_unique_name,
          names.primary_db_unique_name, names.standby_diskgroup>>)

start_standby_nomount == Ssh("start_standby_nomount", <<names.db_name>>)

fix_standby_redo_logs ==
    Ssh("fix_standby_redo_logs", <<names.db_name, names.standby_diskgroup>>)

register_standby_with_cluster ==
    Ssh("register_standby_with_cluster",
        <<names.db_name, names.standby_db_unique_name, names.standby_diskgroup>>)

start_managed_recovery == Ssh("start_managed_recovery", <<names.db_name>>)

\* enable_log_shipping: LOG_ARCHIVE_DEST_STATE_2=ENABLE and
\* LOG_ARCHIVE_CONFIG='DG_CONFIG=(ORA1,{standby_db_unique_name})'
Str_ORA1 == Str_ORA \o <<"1">>

enable_log_shipping ==
    SshDb("enable_log_shipping",
          <<ips.standby, names.db_name, names.standby_db_unique_name>>,
          [dg_config |-> <<Str_ORA1, names.standby_db_unique_name>>,
           dest_state_2 |-> "ENABLE"])

\* validate_dataguard: the check of the primary, then the check of the standby,
\* each a gcloud_ssh command.
validate_dataguard ==
    /\ At("validate_dataguard")
    /\ \E rc \in ReturnCodes :
         /\ calls' = Append(calls,
                Call("validate_dataguard", "ssh",
                     IF sub = 0 THEN args.primary ELSE args.standby,
                     <<names.db_name, names.primary_db_unique_name,
                       names.standby_db_unique_name>>, rc))
         /\ report' = Append(report,
                [check |-> IF sub = 0 THEN "primary" ELSE "standby",
                 result |-> IF rc = 0 THEN "OK" ELSE "FAIL"])
         /\ IF run_cmd_raises(gcloud_ssh_check, rc)
            THEN Raise("CalledProcessError") /\ UNCHANGED <<stage, sub>>
            ELSE IF sub = 0
            THEN sub' = 1 /\ UNCHANGED <<pc, stage, exit_status, error>>
            ELSE Advance
    /\ UNCHANGED <<script, args, project, zone, names, ips>>
    /\ UNCHANGED <<credVars, waitVars, redoVars, standby_db, shell_log, pathVars, dbVars>>

\* duplicate_database: the RMAN run on the standby. RMAN may leave the
\* standby's password file alone, write a new one, or copy the primary's.
duplicate_database ==
    /\ At("duplicate_database")
    /\ \E rc \in ReturnCodes :
         /\ calls' = Append(calls,
                Call("duplicate_database", "ssh", args.standby,
                     <<names.db_name, names.primary_db_unique_name,
                       names.standby_db_unique_name, names.primary_diskgroup,
                       names.standby_diskgroup, ips.primary, ips.standby>>, rc))
         /\ IF run_cmd_raises(gcloud_ssh_check, rc)
            THEN Raise("CalledProcessError") /\ UNCHANGED <<stage, sub>>
            ELSE Advance
         /\ IF rc = 255
            THEN UNCHANGED <<pwfile, fresh>>
            ELSE \E c \in {pwfile[args.standby], pwfile[args.primary], fresh} :
                   /\ pwfile' = [pwfile EXCEPT ![args.standby] = c]
                   /\ fresh' = IF c = fresh THEN fresh + 1 ELSE fresh
    /\ UNCHANGED <<script, args, project, zone, names, ips>>
    /\ UNCHANGED <<tmpfile, tmp_local, md5, waitVars, redoVars, shellVars, pathVars, dbVars>>

---------------------------------------------------------------------------
(* remove_standby_database *)

\* The commands of the script remove_standby_database sends, in order, and
\* whether each is followed by "|| true".
RemoveScriptNoMask == <<
    [cmd |-> "srvctl_stop",    masked |-> FALSE],
    [cmd |-> "srvctl_remove",  masked |-> FALSE],
    [cmd |-> "asmcmd_rm",      masked |-> FALSE],
    [cmd |-> "asmcmd_ls",      masked |-> FALSE],
    [cmd |-> "source_profile", masked |-> FALSE],
    [cmd |-> "rm_dbs",         masked |-> FALSE] >>

RemoveScript == <<
    [cmd |-> "srvctl_stop",    masked |-> TRUE],
    [cmd |-> "srvctl_remove",  masked |-> TRUE],
    [cmd |-> "asmcmd_rm",      masked |-> TRUE],
    [cmd |-> "asmcmd_ls",      masked |-> FALSE],
    [cmd |-> "source_profile", masked |-> FALSE],
    [cmd |-> "rm_dbs",         masked |-> TRUE] >>

RemoveCmds == {RemoveScript[i].cmd : i \in 1..Len(RemoveScript)}

\* The script has no "set -e": its exit status is that of its last command,
\* which "|| true" turns into 0. failed is the set of commands that failed.
ShellExit(sh, failed) ==
    LET last == sh[Len(sh)]
    IN  IF last.masked \/ last.cmd \notin failed THEN 0 ELSE 1

\* The standby's old database: started, registered with Oracle Restart, its
\* files in the disk group, its files under $ORACLE_HOME/dbs; whether the disk
\* group is mounted and .bash_profile exists.
DbStates ==
    [running : BOOLEAN, registered : BOOLEAN, asm_files : BOOLEAN,
     dbs_files : BOOLEAN, dg_mounted : BOOLEAN, profile : BOOLEAN]

\* The commands that cannot succeed on db: there is nothing to stop, to
\* unregister or to remove (rm -f succeeds on absent files).
MustFail(db) ==
    {c \in RemoveCmds :
        \/ c = "srvctl_stop" /\ ~db.running
        \/ c = "srvctl_remove" /\ ~db.registered
        \/ c = "asmcmd_rm" /\ ~(db.asm_files /\ db.dg_mounted)
        \/ c = "asmcmd_ls" /\ ~db.dg_mounted
        \/ c = "source_profile" /\ ~db.profile}

\* db after the script, given the commands that failed.
AfterRemove(db, failed) ==
    [db EXCEPT !.running = db.running /\ "srvctl_stop" \in failed,
               !.registered = db.registered /\ "srvctl_remove" \in failed,
               !.asm_files = db.asm_files /\ "asmcmd_rm" \in failed,
               !.dbs_files = db.dbs_files /\ "rm_dbs" \in failed]

\* The exit statuses gcloud ssh can end with for the script: 255 when the
\* target is unreachable, else the script's.
RemoveReturnCodes ==
    {255} \cup {ShellExit(RemoveScript, failed) : failed \in SUBSET RemoveCmds}

\* main(): standby_old_db = f"ORA{standby_num}"
standby_old_db == Str_ORA \o names.standby_num

\* sync_password_file_after_duplication: orapw_file = f"orapw{db_name}"
orapw_file == <<"o", "r", "a", "p", "w">> \o names.db_name

\* remove_standby_database: the stage of main(). Its last command removes
\* $ORACLE_HOME/dbs/*<standby_old_db>*, which takes the password file with it
\* when the file's name contains the old database's name.
remove_standby_database ==
    /\ At("remove_standby_database")
    /\ \E rc \in RemoveReturnCodes :
         /\ calls' = Append(calls,
                Call("remove_standby_database", "ssh", args.standby,
                     <<standby_old_db, names.standby_diskgroup>>, rc))
         /\ IF run_cmd_raises(gcloud_ssh_check, rc)
            THEN Raise("CalledProcessError") /\ UNCHANGED <<stage, sub>>
            ELSE Advance
         /\ IF rc = 0 /\ Contains(orapw_file, standby_old_db)
            THEN pwfile' = [pwfile EXCEPT ![args.standby] = 0]
            ELSE UNCHANGED pwfile
    /\ UNCHANGED <<script, args, project, zone, names, ips>>
    /\ UNCHANGED <<tmpfile, tmp_local, md5, fresh, waitVars, redoVars, shellVars, pathVars, dbVars>>

\* The script of remove_standby_database run on the standby: once more on what
\* the previous run left. A command fails when it has nothing to act on, and
\* one command of a run may fail for another reason (flaky).
MaxRuns == 2

run_remove_script ==
    /\ pc = "remove_script"
    /\ Len(shell_log) < MaxRuns
    /\ \E reachable \in BOOLEAN, flaky \in {{}} \cup {{c} : c \in RemoveCmds} :
         LET failed == MustFail(standby_db) \cup flaky IN
         IF reachable
         THEN /\ standby_db' = AfterRemove(standby_db, failed)
              /\ shell_log' = Append(shell_log,
                    [reachable |-> TRUE, failed |-> failed,
                     rc |-> ShellExit(RemoveScript, failed)])
         ELSE /\ shell_log' = Append(shell_log,
                    [reachable |-> FALSE, failed |-> {}, rc |-> 255])
              /\ UNCHANGED standby_db
    /\ UNCHANGED <<runVars, credVars, waitVars, redoVars, pathVars, dbVars, report>>

---------------------------------------------------------------------------
(* The password file: setup_password_file *)

\* What "md5sum <file> | awk '{print $1}'" prints: the digest of the content,
\* or nothing when the file does not exist (the pipeline still exits with 0).
\* Content 0 is "no such file".
Md5(content) == IF content = 0 THEN <<>> ELSE <<"md5", content>>

\* One command of a stage that issues several: the call is recorded, a
\* non-zero exit status raises, else the stage goes on at position next.
Step(fn, op, cmd, target, rc, check, next) ==
    /\ calls' = Append(calls,
           [Call(fn, op, target, <<names.db_name>>, rc) EXCEPT !.cmd = cmd])
    /\ IF run_cmd_raises(check, rc)
       THEN Raise("CalledProcessError") /\ UNCHANGED <<stage, sub>>
       ELSE /\ sub' = next
            /\ UNCHANGED <<pc, stage, exit_status, error>>

\* setup_password_file: orapwd on the primary and a copy to /tmp; download;
\* upload; move into place on the standby; clean-up on the primary; restart
\* of the primary.
setup_password_file ==
    /\ At("setup_password_file")
    /\ \/ /\ sub = 0  \* orapwd force=y, ALTER USER SYS, cp to /tmp, md5sum
          /\ \E rc \in ReturnCodes, created \in BOOLEAN :
               /\ Step("setup_password_file", "ssh", "orapwd", args.primary, rc, gcloud_ssh_check, 1)
               /\ IF rc = 0
                  THEN LET c == IF created THEN fresh ELSE pwfile[args.primary] IN
                       /\ pwfile' = [pwfile EXCEPT ![args.primary] = c]
                       /\ tmpfile' = [tmpfile EXCEPT ![args.primary] = c]
                       /\ fresh' = IF created THEN fresh + 1 ELSE fresh
                  ELSE UNCHANGED <<pwfile, tmpfile, fresh>>
          /\ UNCHANGED tmp_local
       \/ /\ sub = 1  \* gcloud_scp primary:/tmp/orapw<db> -> /tmp/orapw_dataguard
          /\ \E rc \in {r \in ReturnCodes : tmpfile[args.primary] = 0 => r # 0} :
               /\ Step("setup_password_file", "scp", "download", args.primary, rc, default_check, 2)
               /\ IF rc = 0
                  THEN tmp_local' = [tmp_local EXCEPT !.orapw_dataguard = tmpfile[args.primary]]
                  ELSE UNCHANGED tmp_local
          /\ UNCHANGED <<pwfile, tmpfile, fresh>>
       \/ /\ sub = 2  \* gcloud_scp /tmp/orapw_dataguard -> standby:/tmp/orapw<db>
          /\ \E rc \in ReturnCodes :
               /\ Step("setup_password_file", "scp", "upload", args.standby, rc, default_check, 3)
               /\ IF rc = 0
                  THEN tmpfile' = [tmpfile EXCEPT ![args.standby] = tmp_local.orapw_dataguard]
                  ELSE UNCHANGED tmpfile
          /\ UNCHANGED <<pwfile, tmp_local, fresh>>
       \/ /\ sub = 3  \* mv, chown, chmod, ls, md5sum on the standby
          /\ \E rc \in ReturnCodes, moved \in BOOLEAN :
               /\ Step("setup_password_file", "ssh", "mv", args.standby, rc, gcloud_ssh_check, 4)
               /\ IF rc = 0 /\ moved /\ tmpfile[args.standby] # 0
                  THEN /\ pwfile' = [pwfile EXCEPT ![args.standby] = tmpfile[args.standby]]
                       /\ tmpfile' = [tmpfile EXCEPT ![args.standby] = 0]
                  ELSE UNCHANGED <<pwfile, tmpfile>>
          /\ UNCHANGED <<tmp_local, fresh>>
       \/ /\ sub = 4  \* sudo rm -f /tmp/orapw<db> on the primary
          /\ \E rc \in ReturnCodes :
               /\ Step("setup_password_file", "ssh", "rm", args.primary, rc, gcloud_ssh_check, 5)
               /\ IF rc = 0
                  THEN tmpfile' = [tmpfile EXCEPT ![args.primary] = 0]
                  ELSE UNCHANGED tmpfile
          /\ UNCHANGED <<pwfile, tmp_local, fresh>>
       \/ /\ sub = 5  \* srvctl stop/start database on the primary
          /\ \E rc \in ReturnCodes :
               /\ calls' = Append(calls,
                      [Call("setup_password_file", "ssh", args.primary, <<names.db_name>>, rc)
                          EXCEPT !.cmd = "restart"])
               /\ IF run_cmd_raises(gcloud_ssh_check, rc)
                  THEN Raise("CalledProcessError") /\ UNCHANGED <<stage, sub>>
                  ELSE Advance
          /\ UNCHANGED <<pwfile, tmpfile, tmp_local, fresh>>
    /\ UNCHANGED <<script, args, project, zone, names, ips>>
    /\ UNCHANGED <<md5, waitVars, redoVars, shellVars, pathVars, dbVars>>

---------------------------------------------------------------------------
(* The password file: sync_password_file_after_duplication *)

\* if primary_md5 == standby_md5: return
files_match_never(primary_md5, standby_md5) == FALSE
files_match_always(primary_md5, standby_md5) == TRUE
files_match(primary_md5, standby_md5) == primary_md5 = standby_md5

\* if primary_md5 == new_standby_md5: ... else: raise RuntimeError
sync_verified_always(primary_md5, new_standby_md5) == TRUE
sync_verified(primary_md5, new_standby_md5) == primary_md5 = new_standby_md5

sync_password_file_after_duplication ==
    LET fn == "sync_password_file_after_duplication" IN
    /\ At(fn)
    /\ \/ /\ sub = 0  \* oracle_home = gcloud_ssh_capture(primary, "echo $ORACLE_HOME")
          /\ \E rc \in ReturnCodes :
               Step(fn, "capture", "oracle_home", args.primary, rc, default_check, 1)
          /\ UNCHANGED <<pwfile, tmpfile, tmp_local, md5>>
       \/ /\ sub = 1  \* primary_md5 = gcloud_ssh_capture(primary, md5sum)
          /\ \E rc \in ReturnCodes :
               /\ Step(fn, "capture", "md5sum", args.primary, rc, default_check, 2)
               /\ md5' = IF rc = 0
                         THEN [md5 EXCEPT !.primary = Md5(pwfile[args.primary])]
                         ELSE md5
          /\ UNCHANGED <<pwfile, tmpfile, tmp_local>>
       \/ /\ sub = 2  \* standby_md5 = gcloud_ssh_capture(standby, md5sum); the comparison
          /\ \E rc \in ReturnCodes :
               LET standby_md5 == Md5(pwfile[args.standby]) IN
               /\ calls' = Append(calls,
                      [Call(fn, "capture", args.standby, <<names.db_name>>, rc)
                          EXCEPT !.cmd = "md5sum"])
               /\ IF run_cmd_raises(default_check, rc)
                  THEN Raise("CalledProcessError") /\ UNCHANGED <<stage, sub, md5>>
                  ELSE /\ md5' = [md5 EXCEPT !.standby = standby_md5]
                       /\ IF files_match(md5.primary, standby_md5)
                          THEN Advance
                          ELSE sub' = 3 /\ UNCHANGED <<pc, stage, exit_status, error>>
          /\ UNCHANGED <<pwfile, tmpfile, tmp_local>>
       \/ /\ sub = 3  \* sudo cp <orapw_path> /tmp/<orapw_file> && sudo chmod 644 on the primary
          /\ \E rc \in {r \in ReturnCodes : pwfile[args.primary] = 0 => r # 0} :
               /\ Step(fn, "ssh", "cp", args.primary, rc, gcloud_ssh_check, 4)
               /\ IF rc = 0
                  THEN tmpfile' = [tmpfile EXCEPT ![args.primary] = pwfile[args.primary]]
                  ELSE UNCHANGED tmpfile
          /\ UNCHANGED <<pwfile, tmp_local, md5>>
       \/ /\ sub = 4  \* gcloud_scp primary:/tmp/<orapw_file> -> /tmp/<orapw_file>
          /\ \E rc \in {r \in ReturnCodes : tmpfile[args.primary] = 0 => r # 0} :
               /\ Step(fn, "scp", "download", args.primary, rc, default_check, 5)
               /\ IF rc = 0
                  THEN tmp_local' = [tmp_local EXCEPT !.orapw_file = tmpfile[args.primary]]
                  ELSE UNCHANGED tmp_local
          /\ UNCHANGED <<pwfile, tmpfile, md5>>
       \/ /\ sub = 5  \* gcloud_scp /tmp/<orapw_file> -> standby:/tmp/<orapw_file>
          /\ \E rc \in ReturnCodes :
               /\ Step(fn, "scp", "upload", args.standby, rc, default_check, 6)
               /\ IF rc = 0
                  THEN tmpfile' = [tmpfile EXCEPT ![args.standby] = tmp_local.orapw_file]
                  ELSE UNCHANGED tmpfile
          /\ UNCHANGED <<pwfile, tmp_local, md5>>
       \/ /\ sub = 6  \* sudo mv; sudo chown; sudo chmod 640 on the standby: the exit
                      \* status is chmod's, 0 on the old file when mv failed
          /\ \E moved \in BOOLEAN :
             \E rc \in {r \in ReturnCodes :
                          /\ (r = 0 /\ ~moved) => pwfile[args.standby] # 0
                          /\ moved => (r = 0 /\ tmpfile[args.standby] # 0)} :
               /\ Step(fn, "ssh", "mv", args.standby, rc, gcloud_ssh_check, 7)
               /\ IF moved
                  THEN /\ pwfile' = [pwfile EXCEPT ![args.standby] = tmpfile[args.standby]]
                       /\ tmpfile' = [tmpfile EXCEPT ![args.standby] = 0]
                  ELSE UNCHANGED <<pwfile, tmpfile>>
          /\ UNCHANGED <<tmp_local, md5>>
       \/ /\ sub = 7  \* sudo rm -f /tmp/<orapw_file> on the primary
          /\ \E rc \in ReturnCodes :
               /\ Step(fn, "ssh", "rm", args.primary, rc, gcloud_ssh_check, 8)
               /\ IF rc = 0
                  THEN tmpfile' = [tmpfile EXCEPT ![args.primary] = 0]
                  ELSE UNCHANGED tmpfile
          /\ UNCHANGED <<pwfile, tmp_local, md5>>
       \/ /\ sub = 8  \* new_standby_md5 = gcloud_ssh_capture(standby, md5sum); the check
          /\ \E rc \in ReturnCodes :
               LET new_standby_md5 == Md5(pwfile[args.standby]) IN
               /\ calls' = Append(calls,
                      [Call(fn, "capture", args.standby, <<names.db_name>>, rc)
                          EXCEPT !.cmd = "md5sum"])
               /\ IF run_cmd_raises(default_check, rc)
                  THEN Raise("CalledProcessError") /\ UNCHANGED <<stage, sub, md5>>
                  ELSE /\ md5' = [md5 EXCEPT !.new_standby = new_standby_md5]
                       /\ IF sync_verified(md5.primary, new_standby_md5)
                          THEN sub' = 9 /\ UNCHANGED <<pc, stage, exit_status, error>>
                          ELSE Raise("RuntimeError") /\ UNCHANGED <<stage, sub>>
          /\ UNCHANGED <<pwfile, tmpfile, tmp_local>>
       \/ /\ sub = 9  \* SHUTDOWN IMMEDIATE; STARTUP MOUNT on the standby
          /\ \E rc \in ReturnCodes :
               /\ calls' = Append(calls,
                      [Call(fn, "ssh", args.standby, <<names.db_name>>, rc)
                          EXCEPT !.cmd = "restart"])
               /\ IF run_cmd_raises(gcloud_ssh_check, rc)
                  THEN Raise("CalledProcessError") /\ UNCHANGED <<stage, sub>>
                  ELSE Advance
          /\ UNCHANGED <<pwfile, tmpfile, tmp_local, md5>>
    /\ UNCHANGED <<script, args, project, zone, names, ips>>
    /\ UNCHANGED <<fresh, waitVars, redoVars, shellVars, pathVars, dbVars>>

---------------------------------------------------------------------------
(* setup_oracle.py: the stages *)

\* wait_for_instance(instance, zone, project, timeout=300) and its
\* time.sleep(10)
Timeout == 300
PollInterval == 10

\* The probe of wait_for_instance is run with check=False.
probe_check_on == TRUE
probe_check == FALSE

\* "if result.returncode == 0: return" of wait_for_instance
probe_succeeded_always(rc) == TRUE
probe_succeeded(rc) == rc = 0

\* create_instance: one "gcloud compute instances create"
create_instance ==
    /\ At("create_instance")
    /\ \E rc \in {0, 1} :
         /\ calls' = Append(calls,
                Call("create_instance", "create", args.instance,
                     <<names.primary_diskgroup>>, rc))
         /\ IF run_cmd_raises(default_check, rc)
            THEN Raise("CalledProcessError") /\ UNCHANGED <<stage, sub>>
            ELSE Advance
    /\ UNCHANGED <<script, args, project, zone, names, ips>>
    /\ UNCHANGED <<credVars, waitVars, redoVars, shellVars, pathVars, dbVars>>

\* wait_for_instance: one turn of "while time.time() - start < timeout": the
\* probe (check=False), the return when it exited with 0, else the sleep; the
\* TimeoutError once the loop condition fails.
wait_for_instance ==
    /\ At("wait_for_instance")
    /\ IF elapsed < Timeout
       THEN \E rc \in {0, 255} :
              /\ calls' = Append(calls,
                     Call("wait_for_instance", "probe", args.instance, <<>>, rc))
              /\ IF run_cmd_raises(probe_check, rc)
                 THEN /\ Raise("CalledProcessError")
                      /\ UNCHANGED <<stage, sub, elapsed>>
                 ELSE IF probe_succeeded(rc)
                 THEN Advance /\ elapsed' = 0
                 ELSE /\ elapsed' = elapsed + probe_secs + PollInterval
                      /\ UNCHANGED <<pc, stage, sub, exit_status, error>>
       ELSE /\ Raise("TimeoutError")
            /\ UNCHANGED <<stage, sub, calls, elapsed>>
    /\ UNCHANGED <<script, args, project, zone, names, ips, probe_secs>>
    /\ UNCHANGED <<credVars, redoVars, shellVars, pathVars, dbVars>>

\* configure_kernel: the kernel script through gcloud_ssh, then
\* "gcloud compute instances reset"
configure_kernel ==
    /\ At("configure_kernel")
    /\ \/ /\ sub = 0
          /\ \E rc \in ReturnCodes :
               /\ calls' = Append(calls,
                      Call("configure_kernel", "ssh", args.instance, <<>>, rc))
               /\ IF run_cmd_raises(default_check, rc)
                  THEN Raise("CalledProcessError") /\ UNCHANGED <<stage, sub>>
                  ELSE sub' = 1 /\ UNCHANGED <<pc, stage, exit_status, error>>
       \/ /\ sub = 1
          /\ \E rc \in {0, 1} :
               /\ calls' = Append(calls,
                      [Call("configure_kernel", "reset", args.instance, <<>>, rc)
                          EXCEPT !.cmd = "reset"])
               /\ IF run_cmd_raises(default_check, rc)
                  THEN Raise("CalledProcessError") /\ UNCHANGED <<stage, sub>>
                  ELSE Advance
    /\ UNCHANGED <<script, args, project, zone, names, ips>>
    /\ UNCHANGED <<credVars, waitVars, redoVars, shellVars, pathVars, dbVars>>

setup_prerequisites == Ssh("setup_prerequisites", <<>>)
create_config_files == Ssh("create_config_files", <<names.primary_diskgroup>>)
install_oracle == Ssh("install_oracle", <<names.primary_diskgroup, names.db_name>>)
configure_oracle_sga == Ssh("configure_oracle_sga", <<>>)
configure_asmfd == Ssh("configure_asmfd", <<names.primary_diskgroup>>)
configure_asm_diskstring == Ssh("configure_asm_diskstring", <<names.primary_diskgroup>>)

\* The checks of the script validate_setup sends, in order: the disk groups
\* are mounted, the database is running, the database is open. Each is
\*     <check> && echo "OK: ..." || { echo "FAIL: ..."; exit 1; }
ValidateChecks == <<"diskgroups", "running", "open">>

\* What the script prints when the checks of failing do not pass: a line per
\* check up to the first that fails, where "exit 1" ends the script.
validate_report(failing) ==
    LET bad == {i \in 1..Len(ValidateChecks) : ValidateChecks[i] \in failing}
        last == IF bad = {} THEN Len(ValidateChecks)
                ELSE CHOOSE i \in bad : \A j \in bad : i <= j
    IN  [i \in 1..last |->
            [check |-> ValidateChecks[i],
             result |-> IF ValidateChecks[i] \in failing THEN "FAIL" ELSE "OK"]]

\* validate_setup: the script through gcloud_ssh; its exit status is 1 when
\* a check failed, 255 when the instance is unreachable.
validate_setup ==
    /\ At("validate_setup")
    /\ \E reachable \in BOOLEAN, failing \in SUBSET {"diskgroups", "running", "open"} :
         LET rc == IF ~reachable THEN 255 ELSE IF failing = {} THEN 0 ELSE 1 IN
         /\ ~reachable => failing = {}
         /\ calls' = Append(calls,
                Call("validate_setup", "ssh", args.instance,
                     <<names.primary_diskgroup, names.db_name>>, rc))
         /\ report' = IF reachable THEN report \o validate_report(failing) ELSE report
         /\ IF run_cmd_raises(gcloud_ssh_check, rc)
            THEN Raise("CalledProcessError") /\ UNCHANGED <<stage, sub>>
            ELSE Advance
    /\ UNCHANGED <<script, args, project, zone, names, ips>>
    /\ UNCHANGED <<credVars, waitVars, redoVars, standby_db, shell_log, pathVars, dbVars>>

\* main(): if args.delete: delete_instance(...); return
delete_instance ==
    /\ pc = "delete"
    /\ \E rc \in {0, 1} :
         /\ calls' = Append(calls,
                Call("delete_instance", "delete", args.instance, <<>>, rc))
         /\ IF run_cmd_raises(default_check, rc)
            THEN Raise("CalledProcessError")
            ELSE pc' = "done" /\ exit_status' = 0 /\ error' = ""
    /\ UNCHANGED <<script, args, stage, sub, project, zone, names, ips>>
    /\ UNCHANGED <<credVars, waitVars, redoVars, shellVars, pathVars, dbVars>>

---------------------------------------------------------------------------
(* The workflow specification: one run of either script *)

NoFlags ==
    [skip_primary_config |-> FALSE, skip_duplication |-> FALSE,
     skip_create |-> FALSE, skip_kernel |-> FALSE, skip_install |-> FALSE,
     skip_asmfd |-> FALSE, delete |-> FALSE]

\* The command lines of setup_dataguard.py
DataguardArgs ==
    [primary : RunIds, standby : RunIds, instance : {<<>>},
     project : {"", "given"}, zone : {"", "given"},
     skip_primary_config : BOOLEAN, skip_duplication : BOOLEAN,
     skip_create : {FALSE}, skip_kernel : {FALSE}, skip_install : {FALSE},
     skip_asmfd : {FALSE}, delete : {FALSE}]

\* The command lines of setup_oracle.py
OracleArgs ==
    [primary : {<<>>}, standby : {<<>>}, instance : {Id_ora1},
     project : {"", "given"}, zone : {"", "given"},
     skip_primary_config : {FALSE}, skip_duplication : {FALSE},
     skip_create : BOOLEAN, skip_kernel : BOOLEAN, skip_install : BOOLEAN,
     skip_asmfd : BOOLEAN, delete : BOOLEAN]

IdleRedo == logs = <<>> /\ standby_logs = <<>> /\ plsql = [pc |-> "idle"]
IdleShell ==
    /\ standby_db = [running |-> TRUE, registered |-> TRUE, asm_files |-> TRUE,
                     dbs_files |-> TRUE, dg_mounted |-> TRUE, profile |-> TRUE]
    /\ shell_log = <<>>
    /\ report = <<>>
IdleCred ==
    /\ pwfile = <<>> /\ tmpfile = <<>>
    /\ tmp_local = [orapw_dataguard |-> 0, orapw_file |-> 0]
    /\ md5 = [primary |-> <<>>, standby |-> <<>>, new_standby |-> <<>>]
    /\ fresh = 3

\* The parameters of a database that was never configured for Data Guard:
\* LOG_ARCHIVE_CONFIG unset, LOG_ARCHIVE_DEST_STATE_2 at its default.
UnconfiguredDb == [dg_config |-> <<>>, dest_state_2 |-> "ENABLE"]
IdleDb == primary_db = UnconfiguredDb

IdlePath == member = <<>> /\ flagged = [noncurrent |-> "unknown", current |-> "unknown"]

\* Nothing is resolved and nothing was issued.
NothingDone ==
    /\ stage = 0 /\ sub = 0
    /\ project = "" /\ zone = ""
    /\ names = NoNames
    /\ ips = [primary |-> <<>>, standby |-> <<>>]
    /\ calls = <<>>
    /\ exit_status = -1 /\ error = ""
    /\ elapsed = 0

\* The password file of the database on each instance before the run: the
\* primary has one or not, the standby has none, the primary's, or another.
Init ==
    /\ \/ /\ script = "setup_dataguard"
          /\ args \in DataguardArgs
          /\ \E p \in {0, 1}, s \in {0, 1, 2} :
               pwfile = [i \in {args.primary, args.standby} |->
                            IF i = args.primary THEN p ELSE s]
          /\ tmpfile = [i \in {args.primary, args.standby} |-> 0]
          /\ tmp_local = [orapw_dataguard |-> 0, orapw_file |-> 0]
          /\ md5 = [primary |-> <<>>, standby |-> <<>>, new_standby |-> <<>>]
          /\ fresh = 3
          /\ primary_db \in {UnconfiguredDb,
                              [UnconfiguredDb EXCEPT !.dest_state_2 = "DEFER"]}
       \/ /\ script = "setup_oracle"
          /\ args \in OracleArgs
          /\ IdleCred /\ IdleDb
    /\ pc = IF script = "setup_dataguard" THEN "project" ELSE "names"
    /\ NothingDone
    /\ probe_secs = SlowProbe
    /\ IdleRedo /\ IdleShell
    /\ IdlePath

Next ==
    \/ main_project
    \/ main_zone
    \/ main_check
    \/ dataguard_names
    \/ oracle_main_names
    \/ get_instance_ip
    \/ configure_bash_profiles
    \/ configure_tns_entries
    \/ configure_static_listener
    \/ configure_primary_for_dataguard
    \/ setup_password_file
    \/ remove_standby_database
    \/ create_standby_pfile
    \/ start_standby_nomount
    \/ duplicate_database
    \/ sync_password_file_after_duplication
    \/ fix_standby_redo_logs
    \/ register_standby_with_cluster
    \/ start_managed_recovery
    \/ enable_log_shipping
    \/ validate_dataguard
    \/ delete_instance
    \/ create_instance
    \/ wait_for_instance
    \/ configure_kernel
    \/ setup_prerequisites
    \/ create_config_files
    \/ install_oracle
    \/ configure_oracle_sga
    \/ configure_asmfd
    \/ configure_asm_diskstring
    \/ validate_setup

Spec == Init /\ [][Next]_vars

---------------------------------------------------------------------------
(* Properties of the workflow *)

SyncFn == "sync_password_file_after_duplication"

\* The commands a function issued, in order.
CallsOf(fn) == SelectSeq(calls, LAMBDA c : c.fn = fn)
SyncCalls == CallsOf(SyncFn)

\* The index in main() of the one stage that calls fn.
StageIndex(fn) == CHOOSE k \in 1..Len(DGStages) : DGStages[k].fn = fn

\* Both initial fingerprints of the sync stage have been read.
SyncRead == Len(SyncCalls) >= 3 /\ SyncCalls[3].rc = 0
TransferCmds == {"cp", "download", "upload", "mv"}

\* C1: when the fingerprint read from the primary equals the one read from the
\* standby, sync_password_file_after_duplication has returned and has issued
\* no copy to the staging path, no download, no upload and no move: its only
\* commands are the three reads, and the control host's staging file was
\* never written.
C1_EqualFingerprintsNoTransfer ==
    (SyncRead /\ md5.primary = md5.standby) =>
        /\ stage > StageIndex(SyncFn)
        /\ Len(SyncCalls) = 3
        /\ \A i \in 1..Len(SyncCalls) : SyncCalls[i].cmd \notin TransferCmds
        /\ tmp_local.orapw_file = 0

C1_Witness ==
    /\ args.primary # args.standby
    /\ SyncRead
    /\ md5.primary = md5.standby
    /\ md5.primary # <<>>
    /\ stage > StageIndex(SyncFn)

\* C2: when the two initial fingerprints differ, (a) once the stage has
\* returned, the fingerprints of the two password files are equal and the
\* restart was issued; (b) when the fingerprint read back from the standby
\* differs from the primary's, the run has ended with RuntimeError and a
\* non-zero status and no restart was issued; (c) a restart is issued only
\* after the fingerprint read back matched.
SyncDiffer == SyncRead /\ md5.primary # md5.standby
SyncReadBack == Len(SyncCalls) >= 9 /\ SyncCalls[9].rc = 0
SyncRestarted == \E i \in 1..Len(SyncCalls) : SyncCalls[i].cmd = "restart"

C2_DifferingFingerprintsVerified ==
    /\ (SyncDiffer /\ stage > StageIndex(SyncFn)) =>
          /\ Md5(pwfile[args.primary]) = Md5(pwfile[args.standby])
          /\ SyncRestarted
    /\ (SyncDiffer /\ SyncReadBack /\ md5.new_standby # md5.primary) =>
          /\ pc = "done" /\ error = "RuntimeError" /\ exit_status = 1
          /\ ~SyncRestarted
    /\ SyncRestarted =>
          SyncDiffer /\ SyncReadBack /\ md5.new_standby = md5.primary

C2_Witness ==
    /\ SyncDiffer
    /\ stage > StageIndex(SyncFn)
    /\ SyncRestarted

\* The other case of C2 is reachable too: the read-back differs.
C2_MismatchReached == SyncDiffer /\ SyncReadBack /\ md5.new_standby # md5.primary

\* The stages that issued commands, in the order of their first command.
RECURSIVE StageTrace(_)
StageTrace(cs) ==
    IF cs = <<>> THEN <<>>
    ELSE LET rest == StageTrace(Tail(cs))
             k    == Head(cs).stage
         IN  IF k = 0 \/ (rest # <<>> /\ Head(rest) = k) THEN rest
             ELSE <<k>> \o rest

\* The stages of the script whose skip flag is not set on the command line,
\* in declaration order.
RECURSIVE Unskipped(_)
Unskipped(k) ==
    IF k > Len(Stages) THEN <<>>
    ELSE IF Stages[k].skip # "none" /\ args[Stages[k].skip]
    THEN Unskipped(k + 1)
    ELSE <<k>> \o Unskipped(k + 1)

IsPrefix(s, t) == Len(s) <= Len(t) /\ SubSeq(t, 1, Len(s)) = s

\* The names main() derives from the command line before its first stage.
ResolvedNames ==
    IF script = "setup_dataguard"
    THEN derive_names(split_num(args.primary).num, split_num(args.standby).num)
    ELSE oracle_names(args.instance)

\* C3: for every combination of skip flags, no command is ever issued by a
\* stage whose skip flag is set; the stages that issue commands are the
\* unskipped ones in declaration order, all of them once the run has ended
\* with status 0; and every stage is handed the names resolved before the
\* first stage.
C3_SkipFlags ==
    /\ \A i \in 1..Len(calls) :
          LET k == calls[i].stage IN
          k # 0 => ~(Stages[k].skip # "none" /\ args[Stages[k].skip])
    /\ IsPrefix(StageTrace(calls), Unskipped(1))
    /\ (pc = "done" /\ exit_status = 0 /\ ~args.delete) =>
          StageTrace(calls) = Unskipped(1)
    /\ pc = "stages" => names = ResolvedNames
    /\ \A i \in 1..Len(calls) :
          (calls[i].stage # 0 /\ calls[i].params # <<>>
             /\ calls[i].fn \notin {"enable_log_shipping", "remove_standby_database"}) =>
          calls[i].params[1] \in {ResolvedNames.db_name, ResolvedNames.primary_diskgroup}

\* A run that skipped a block and still ran every later stage to the end.
C3_Witness ==
    /\ pc = "done" /\ exit_status = 0
    /\ \/ args.skip_primary_config /\ ~args.skip_duplication
       \/ args.skip_kernel /\ ~args.skip_install /\ ~args.delete
    /\ Len(StageTrace(calls)) >= 7

\* C4: stages issue their commands in declaration order; a command that
\* failed (other than a readiness probe, which is retried) is the last command
\* of the run, so no later stage and no compensating command follows it; the
\* stage that runs is reached only over stages that were skipped or whose
\* commands all succeeded.
C4_OrderAndHalt ==
    /\ \A i, j \in 1..Len(calls) : i < j => calls[i].stage <= calls[j].stage
    /\ \A i \in 1..Len(calls) :
          (calls[i].rc # 0 /\ calls[i].op # "probe") =>
              /\ i = Len(calls)
              /\ pc = "done" /\ exit_status # 0
    /\ \A k \in 1..Len(Stages) :
          (pc = "stages" /\ k < stage) =>
              \/ Stages[k].skip # "none" /\ args[Stages[k].skip]
              \/ \E i \in 1..Len(calls) : calls[i].stage = k /\ calls[i].rc = 0

\* A stage in the middle of the run failed and the run stopped there.
C4_Witness ==
    /\ pc = "done" /\ exit_status # 0
    /\ Len(calls) > 0
    /\ calls[Len(calls)].rc # 0
    /\ calls[Len(calls)].stage \in 2..(Len(Stages) - 1)

\* Stage k ran and completed: it issued commands, none of them failed (a
\* wait's last probe succeeded), and main() went past it.
StageSucceeded(k) ==
    /\ \E i \in 1..Len(calls) : calls[i].stage = k
    /\ \A i \in 1..Len(calls) :
          (calls[i].stage = k /\ calls[i].op # "probe") => calls[i].rc = 0
    /\ \A i \in 1..Len(calls) :
          (calls[i].stage = k /\ calls[i].op = "probe"
             /\ (i = Len(calls) \/ calls[i + 1].stage # k)) => calls[i].rc = 0
    /\ stage > k

\* The run did all it was asked to: the instance was deleted (--delete), or
\* every stage whose skip flag is not set completed.
RunCompleted ==
    IF args.delete
    THEN \E i \in 1..Len(calls) :
            calls[i].fn = "delete_instance" /\ calls[i].rc = 0
    ELSE /\ stage > Len(Stages)
         /\ \A k \in 1..Len(Stages) :
               (Stages[k].skip # "none" /\ args[Stages[k].skip]) \/ StageSucceeded(k)

\* C5: the process has ended with status 0 if and only if every stage that is
\* not skipped completed; a run that a failure ended has a non-zero status,
\* and no status is set before the run has ended.
C5_ExitStatus ==
    /\ pc = "done" => (exit_status = 0 <=> RunCompleted)
    /\ pc = "done" => exit_status \in {0, 1}
    /\ (pc = "done" /\ error # "") => exit_status # 0
    /\ pc # "done" => exit_status = -1

\* A run that ended with a non-zero status because a stage failed.
C5_Witness ==
    /\ pc = "done" /\ exit_status = 1
    /\ error \in {"CalledProcessError", "RuntimeError", "TimeoutError"}
    /\ stage >= 1

C5_SuccessReached == pc = "done" /\ exit_status = 0 /\ RunCompleted /\ ~args.delete

---------------------------------------------------------------------------
(* The remove specification: the script of remove_standby_database run on *)
(* the standby, and run again                                              *)

InitRemove ==
    /\ script = "setup_dataguard"
    /\ args = [NoFlags @@ [primary |-> Id_ora1, standby |-> Id_ora2,
                           instance |-> <<>>, project |-> "given",
                           zone |-> "given"]
                 EXCEPT !.skip_primary_config = TRUE]
    /\ NothingDone
    /\ pc = "remove_script"
    /\ probe_secs = SlowProbe
    /\ IdleCred /\ IdleRedo
    /\ standby_db \in DbStates
    /\ shell_log = <<>>
    /\ report = <<>>
    /\ IdlePath /\ IdleDb

NextRemove == run_remove_script

SpecRemove == InitRemove /\ [][NextRemove]_vars

\* C8: every run of the remove script on a reachable standby ends with exit
\* status 0, whatever is left of the database: also the second of two runs in
\* a row, which finds the database stopped, unregistered and its files gone.
\* So the stage's gcloud_ssh raises only when the target is unreachable.
C8_RemoveIdempotent ==
    /\ \A i \in 1..Len(shell_log) :
          shell_log[i].reachable => shell_log[i].rc = 0
    /\ \A rc \in RemoveReturnCodes : rc \in {0, 255}

\* The second run found nothing to stop, unregister or remove, and succeeded.
C8_Witness ==
    /\ Len(shell_log) = 2
    /\ shell_log[1].reachable /\ shell_log[1].rc = 0
    /\ shell_log[1].failed = {}
    /\ shell_log[2].reachable /\ shell_log[2].rc = 0
    /\ {"srvctl_stop", "srvctl_remove", "asmcmd_rm"} \subseteq shell_log[2].failed

---------------------------------------------------------------------------
(* The name-resolution specification: main() up to its first stage, for   *)
(* many identifiers                                                        *)

\* Identifiers: a prefix followed by up to MaxTail characters.
IdPrefixes == {Str_ora, <<"o", "r">>, <<"d", "b">>, <<>>}
TailChars == {"-", "1", "2", "x"}
Tails == UNION {[1..k -> TailChars] : k \in 0..MaxTail}
WideIds == {p \o t : p \in IdPrefixes, t \in Tails}
FewIds == {Id_ora1, Id_ora2, Str_ora, Str_ora \o <<"-", "x">>}

InitNames ==
    /\ \/ /\ script = "setup_dataguard"
          /\ \E w \in WideIds, f \in FewIds, swap \in BOOLEAN, pr \in {"", "given"} :
               args = [NoFlags @@ [primary |-> IF swap THEN f ELSE w,
                                   standby |-> IF swap THEN w ELSE f,
                                   instance |-> <<>>, project |-> pr,
                                   zone |-> "given"]
                         EXCEPT !.skip_primary_config = TRUE]
          /\ pc = "project"
       \/ /\ script = "setup_oracle"
          /\ \E w \in WideIds, pr \in {"", "given"}, del \in BOOLEAN :
               args = [NoFlags @@ [primary |-> <<>>, standby |-> <<>>,
                                   instance |-> w, project |-> pr,
                                   zone |-> "given"]
                         EXCEPT !.delete = del]
          /\ pc = "names"
    /\ NothingDone
    /\ probe_secs = SlowProbe
    /\ IdleCred /\ IdleRedo /\ IdleShell
    /\ IdlePath /\ IdleDb

NextNames ==
    \/ main_project
    \/ main_zone
    \/ main_check
    \/ dataguard_names
    \/ oracle_main_names
    \/ get_instance_ip

SpecNames == InitNames /\ [][NextNames]_vars

\* "ora-<number>": the number of an identifier of that form.
AllDigits(s) == s # <<>> /\ \A i \in 1..Len(s) : IsDigit(s[i])
IsOraNumber(id) ==
    /\ Len(id) > 4
    /\ SubSeq(id, 1, 4) = <<"o", "r", "a", "-">>
    /\ AllDigits(SubSeq(id, 5, Len(id)))
NumberOf(id) == SubSeq(id, 5, Len(id))

\* main() has derived the names.
NamesDerived ==
    IF script = "setup_dataguard"
    THEN pc \in {"ip_primary", "ip_standby", "stages"}
    ELSE pc \in {"project", "zone", "check", "delete", "stages"}
         \/ (pc = "done" /\ error # "SystemExit")
         \/ (pc = "done" /\ project # "" /\ zone # "")

\* C9: for a primary ora-P and a standby ora-S, setup_dataguard.py derives the
\* database name ORA<P> for both roles, the primary unique name ORA<P>, the
\* standby unique name ORA<P>_STBY, the primary pool DGORA<P> and the standby
\* pool DGORA<S>; setup_oracle.py derives ORA<P> and DGORA<P> for ora-P.
C9_DerivedNames ==
    /\ (script = "setup_dataguard" /\ NamesDerived
          /\ IsOraNumber(args.primary) /\ IsOraNumber(args.standby)) =>
          LET P == NumberOf(args.primary)
              S == NumberOf(args.standby)
          IN  /\ names.db_name = <<"O", "R", "A">> \o P
              /\ names.primary_db_unique_name = <<"O", "R", "A">> \o P
              /\ names.standby_db_unique_name =
                     <<"O", "R", "A">> \o P \o <<"_", "S", "T", "B", "Y">>
              /\ names.primary_diskgroup = <<"D", "G", "O", "R", "A">> \o P
              /\ names.standby_diskgroup = <<"D", "G", "O", "R", "A">> \o S
    /\ (script = "setup_oracle" /\ NamesDerived /\ IsOraNumber(args.instance)) =>
          LET P == NumberOf(args.instance)
          IN  /\ names.db_name = <<"O", "R", "A">> \o P
              /\ names.primary_diskgroup = <<"D", "G", "O", "R", "A">> \o P

\* The spec's scenario: ora-1 and ora-2 resolved, the addresses queried.
C9_Witness ==
    /\ script = "setup_dataguard"
    /\ pc = "stages"
    /\ args.primary = Id_ora1 /\ args.standby = Id_ora2
    /\ names.db_name = <<"O", "R", "A", "1">>
    /\ names.standby_db_unique_name = <<"O", "R", "A", "1", "_", "S", "T", "B", "Y">>
    /\ names.standby_diskgroup = <<"D", "G", "O", "R", "A", "2">>

\* The naming convention "prefix-<number>": one "-", a prefix before it and
\* only digits after it.
Conforms(id) ==
    LET parts == Split(id, "-")
    IN  Len(parts) = 2 /\ parts[1] # <<>> /\ AllDigits(parts[2])

\* A command that reaches the cloud or an instance (not the local
\* "gcloud config get-value").
RemoteOps == {"describe", "ssh", "scp", "capture", "probe", "create", "delete", "reset"}

\* C10: for an identifier that does not conform to "prefix-<number>", no names
\* are derived from it, no command reaches the cloud or an instance, and the
\* run ends with a non-zero status.
C10_NonConformingRejected ==
    LET ids == IF script = "setup_dataguard"
               THEN {args.primary, args.standby} ELSE {args.instance}
    IN  (\E id \in ids : ~Conforms(id)) =>
            /\ names = NoNames
            /\ \A i \in 1..Len(calls) : calls[i].op \notin RemoteOps
            /\ pc = "done" => exit_status # 0

---------------------------------------------------------------------------
(* The redo-log path classifier of fix_standby_redo_logs *)

\* SQL's "s LIKE pattern": % matches any run of characters, _ any one.
RECURSIVE Like(_, _)
Like(str, pattern) ==
    IF pattern = <<>> THEN str = <<>>
    ELSE IF Head(pattern) = "%"
    THEN Like(str, Tail(pattern)) \/ (str # <<>> /\ Like(Tail(str), pattern))
    ELSE IF str = <<>> THEN FALSE
    ELSE (Head(pattern) = "_" \/ Head(pattern) = Head(str))
         /\ Like(Tail(str), Tail(pattern))

\* LENGTH(f.MEMBER) < 10
MinPathLength == 10

\* The WHERE clause of the pass over the groups that are not current:
\*     f.MEMBER NOT LIKE '+%/%' OR f.MEMBER LIKE '+<diskgroup>'
\*     OR LENGTH(f.MEMBER) < 10
invalid_path_no_length(path, diskgroup) ==
    \/ ~Like(path, <<"+", "%", "/", "%">>)
    \/ Like(path, <<"+">> \o diskgroup)
invalid_path(path, diskgroup) ==
    \/ ~Like(path, <<"+", "%", "/", "%">>)
    \/ Like(path, <<"+">> \o diskgroup)
    \/ Len(path) < MinPathLength

\* The WHERE clause of the block for the current group:
\*     f.MEMBER NOT LIKE '+%/%' OR LENGTH(f.MEMBER) < 10
invalid_current_path(path) ==
    \/ ~Like(path, <<"+", "%", "/", "%">>)
    \/ Len(path) < MinPathLength

\* The four paths of the spec's example, and their pool.
Str_POOL1 == <<"P", "O", "O", "L", "1">>
Path_full == <<"+">> \o Str_POOL1 \o <<"/", "s", "u", "b", "p", "a", "t", "h", "/", "f", "i", "l", "e">>
Path_bare == <<"+">> \o Str_POOL1
Path_short == <<"+", "P">>
Path_noplus == <<"n", "o", "p", "o", "o", "l", "p", "r", "e", "f", "i", "x", "/", "x">>
ExamplePaths == {Path_full, Path_bare, Path_short, Path_noplus}

PathChars == {"+", "/", "P"}
Heads == UNION {[1..k -> PathChars] : k \in 0..MaxHead}
Ends == UNION {[1..k -> PathChars] : k \in 0..MaxEnd}
Fill(n) == [i \in 1..n |-> "x"]
PoolPaths(diskgroup) ==
    {<<"+">> \o diskgroup \o e \o Fill(n) : e \in Ends, n \in 0..MaxFill}
Paths(diskgroup) ==
    ExamplePaths \cup PoolPaths(diskgroup)
    \cup {h \o Fill(n) \o e : h \in Heads, n \in 0..MaxFill, e \in Ends}

\* The repair runs on the standby with the disk group main() derived for it.
InitPath ==
    /\ script = "setup_dataguard"
    /\ args \in {a \in DataguardArgs :
                    /\ a.primary # a.standby
                    /\ a.project = "given" /\ a.zone = "given"
                    /\ ~a.skip_primary_config /\ ~a.skip_duplication}
    /\ pc = "classify"
    /\ stage = 0 /\ sub = 0
    /\ project = "given" /\ zone = "given"
    /\ names = derive_names(split_num(args.primary).num, split_num(args.standby).num)
    /\ ips = [primary |-> <<>>, standby |-> <<>>]
    /\ calls = <<>>
    /\ exit_status = -1 /\ error = ""
    /\ elapsed = 0
    /\ probe_secs = SlowProbe
    /\ IdleCred /\ IdleRedo /\ IdleShell /\ IdleDb
    /\ member \in Paths(names.standby_diskgroup)
    /\ flagged = [noncurrent |-> "unknown", current |-> "unknown"]

\* A V$LOGFILE row goes through the WHERE clause of both passes.
classify ==
    /\ pc = "classify"
    /\ flagged.noncurrent = "unknown"
    /\ flagged' =
          [noncurrent |-> IF invalid_path(member, names.standby_diskgroup)
                          THEN "invalid" ELSE "valid",
           current |-> IF invalid_current_path(member)
                       THEN "invalid" ELSE "valid"]
    /\ UNCHANGED <<runVars, credVars, waitVars, redoVars, shellVars, member, dbVars>>

NextPath == classify

SpecPath == InitPath /\ [][NextPath]_vars

---------------------------------------------------------------------------
(* Properties of the path classifier *)

Classified == flagged.noncurrent # "unknown"

\* The path starts with the pool marker "+" and has a separator after it.
HasPoolAndSeparator(path) ==
    /\ Len(path) >= 1
    /\ path[1] = "+"
    /\ \E i \in 2..Len(path) : path[i] = "/"

IsBareToken(path) == path = <<"+">> \o names.standby_diskgroup

\* C7 (as amended): a recorded path is flagged exactly when it lacks the
\* leading pool marker followed by a path separator, equals the bare
\* pool-name token, or is shorter than ten characters, by the pass over the
\* non-current groups and by the block for the current group alike; of the
\* four example paths exactly the last three are flagged; and a pool path
\* with a separator and at least ten characters is never flagged.
C7_ClassifierFlags ==
    Classified =>
        /\ (flagged.noncurrent = "invalid") <=>
               \/ ~HasPoolAndSeparator(member)
               \/ IsBareToken(member)
               \/ Len(member) < 10
        /\ flagged.current = flagged.noncurrent
        /\ member = Path_full => flagged.noncurrent = "valid"
        /\ member \in {Path_bare, Path_short, Path_noplus}
              => flagged.noncurrent = "invalid"
        /\ (HasPoolAndSeparator(member) /\ Len(member) >= 10)
              => flagged.noncurrent = "valid"

\* A path of ten characters with the pool and a separator went through
\* the classifier and was kept.
C7_Witness ==
    /\ Classified
    /\ member = <<"+">> \o names.standby_diskgroup \o <<"/", "x", "x">>
    /\ flagged = [noncurrent |-> "valid", current |-> "valid"]

\* The path names the standby's pool, a separator and a file under it.
FullySpecified(path) ==
    LET pool == <<"+">> \o names.standby_diskgroup \o <<"/">>
    IN  /\ Len(path) > Len(pool)
        /\ SubSeq(path, 1, Len(pool)) = pool
        /\ \A i \in Len(pool) + 1..Len(path) : path[i] \notin {"+", "/"}

\* C7 (as stated): the classifier never flags a fully-specified pool path.
C7_NeverFlagsPoolPath ==
    (Classified /\ FullySpecified(member)) => flagged.noncurrent = "valid"

---------------------------------------------------------------------------
(* The SQL script of fix_standby_redo_logs, block by block *)

\* A member that is the bare disk group, and one Oracle generated under it.
BareMember(diskgroup) == <<"+">> \o diskgroup
FullMember(diskgroup) == <<"+">> \o diskgroup \o <<"/", "o", "n", "l", "i", "n", "e">>

Max(S) == CHOOSE x \in S : \A y \in S : y <= x

\* SELECT MAX(BYTES)/1024/1024 INTO v_log_size FROM V$LOG;
\* IF v_log_size IS NULL OR v_log_size = 0 THEN v_log_size := 100;
DefaultLogSize == 100
log_size ==
    IF DOMAIN logs = {} THEN DefaultLogSize
    ELSE LET m == Max({logs[g].bytes : g \in DOMAIN logs})
         IN  IF m = 0 THEN DefaultLogSize ELSE m

\* The function f without the groups of S.
Without(f, S) == [g \in DOMAIN f \ S |-> f[g]]

\* Statements the database refused so far, and those it may still refuse.
CanFail(n) == plsql.faults + n <= MaxFaults

\* The statements each pass issues for a group it found, in order, each
\* through EXECUTE IMMEDIATE inside one BEGIN ... EXCEPTION block.
noncurrent_statements == <<"DROP", "ADD">>
current_log_statements_no_clear == <<"DROP", "ADD">>
current_log_statements == <<"CLEAR", "DROP", "ADD">>

\* The statements issued for group g when the database refuses the k-th of
\* ops (0: none): the refused statement raises and the handler skips the
\* rest. An ADD carries the size v_log_size; "was" is the group's row when
\* the pass found it.
Issued(block, g, ops, k, size) ==
    [i \in 1..(IF k = 0 THEN Len(ops) ELSE k) |->
        [block |-> block, op |-> ops[i], group |-> g,
         size |-> IF ops[i] = "ADD" THEN size ELSE 0,
         ok |-> i # k, was |-> logs[g]]]

Done(stmts, op) == \E i \in 1..Len(stmts) : stmts[i].op = op /\ stmts[i].ok

\* The statements of a loop over the groups of S in the order of GROUP#,
\* refused[g] being the statement refused for g.
RECURSIVE IssuedLoop(_, _, _, _, _)
IssuedLoop(block, S, ops, refused, size) ==
    IF S = {} THEN <<>>
    ELSE LET g == CHOOSE x \in S : \A y \in S : x <= y
         IN  Issued(block, g, ops, refused[g], size)
                \o IssuedLoop(block, S \ {g}, ops, refused, size)

\* V$LOG and V$LOGFILE after the statements stmts: a group dropped and added
\* is a new, unused group of the size given on a generated path; a group
\* dropped and not added is gone.
AfterStatements(stmts, diskgroup) ==
    LET of(g) == SelectSeq(stmts, LAMBDA st : st.group = g)
        gone == {g \in DOMAIN logs : Done(of(g), "DROP") /\ ~Done(of(g), "ADD")}
    IN  [g \in DOMAIN logs \ gone |->
            IF Done(of(g), "DROP")
            THEN LET add == SelectSeq(of(g), LAMBDA st : st.op = "ADD")[1]
                 IN  [status |-> "UNUSED", bytes |-> add.size,
                      member |-> FullMember(diskgroup)]
            ELSE logs[g]]

\* First block: each group that is not current and whose member the WHERE
\* clause flags is dropped and added again; a refused statement is caught
\* by the handler of that iteration and the loop goes on.
fix_invalid_online_logs ==
    /\ plsql.pc = "noncurrent"
    /\ LET recs == {g \in DOMAIN logs :
                      /\ invalid_path(logs[g].member, names.standby_diskgroup)
                      /\ logs[g].status # "CURRENT"}
           ops == noncurrent_statements
       IN  \E refused \in [recs -> 0..Len(ops)] :
              LET faults == Cardinality({g \in recs : refused[g] # 0})
                  stmts == IssuedLoop("noncurrent", recs, ops, refused, log_size)
              IN  /\ CanFail(faults)
                  /\ logs' = AfterStatements(stmts, names.standby_diskgroup)
                  /\ plsql' = [plsql EXCEPT
                                 !.pc = "current",
                                 !.faults = @ + faults,
                                 !.stmts = @ \o stmts,
                                 !.v_invalid_count = Cardinality(recs) - faults]
    /\ UNCHANGED <<runVars, credVars, waitVars, shellVars, pathVars, dbVars, standby_logs>>

\* Second block: the current group, when its member is flagged, is cleared,
\* dropped and added again; NO_DATA_FOUND and any refusal are caught.
fix_current_log ==
    /\ plsql.pc = "current"
    /\ LET found == {g \in DOMAIN logs :
                       /\ logs[g].status = "CURRENT"
                       /\ invalid_current_path(logs[g].member)}
           ops == current_log_statements
       IN  IF found = {}
           THEN /\ logs' = logs
                /\ plsql' = [plsql EXCEPT !.pc = "drop_standby"]
           ELSE \E g \in found, k \in 0..Len(ops) :
                  LET stmts == Issued("current", g, ops, k, log_size) IN
                  /\ k # 0 => CanFail(1)
                  /\ logs' = AfterStatements(stmts, names.standby_diskgroup)
                  /\ plsql' = [plsql EXCEPT
                                 !.pc = "drop_standby",
                                 !.faults = @ + (IF k = 0 THEN 0 ELSE 1),
                                 !.stmts = @ \o stmts]
    /\ UNCHANGED <<runVars, credVars, waitVars, shellVars, pathVars, dbVars, standby_logs>>

\* Third block, up to the end of its first loop: the count, the highest
\* number and the largest size of the online groups are read, then every
\* standby group is dropped, a refused drop being caught and passed over.
drop_standby_logs ==
    /\ plsql.pc = "drop_standby"
    /\ \E refused \in SUBSET DOMAIN standby_logs :
          /\ CanFail(Cardinality(refused))
          /\ standby_logs' = Without(standby_logs, DOMAIN standby_logs \ refused)
          /\ plsql' = [plsql EXCEPT
                         !.pc = "add_standby",
                         !.faults = @ + Cardinality(refused),
                         !.v_online_count = Cardinality(DOMAIN logs),
                         !.v_max_group = IF DOMAIN logs = {} THEN 0
                                         ELSE Max(DOMAIN logs),
                         !.v_log_size = log_size]
    /\ UNCHANGED <<runVars, credVars, waitVars, shellVars, pathVars, dbVars, logs>>

\* Third block, second loop: groups v_max_group + 1 .. v_max_group +
\* v_online_count + 1 are added; the database refuses a number that is
\* taken (and every statement when v_max_group is NULL), and may refuse
\* others; each refusal is caught.
add_standby_logs ==
    /\ plsql.pc = "add_standby"
    /\ LET wanted == {plsql.v_max_group + i : i \in 1..(plsql.v_online_count + 1)}
           taken == IF DOMAIN logs = {} THEN wanted
                    ELSE wanted \cap DOMAIN standby_logs
       IN  \E refused \in SUBSET (wanted \ taken) :
              /\ CanFail(Cardinality(refused))
              /\ standby_logs' =
                    [g \in DOMAIN standby_logs \cup (wanted \ (taken \cup refused)) |->
                       IF g \in DOMAIN standby_logs THEN standby_logs[g]
                       ELSE [bytes |-> plsql.v_log_size]]
              /\ plsql' = [plsql EXCEPT !.pc = "done",
                                        !.created = wanted \ (taken \cup refused),
                                        !.faults = @ + Cardinality(refused)]
    /\ UNCHANGED <<runVars, credVars, waitVars, shellVars, pathVars, dbVars, logs>>

\* The standby after the duplication: 1..n online groups, one of them
\* current, each member the bare disk group or a full path, at most one
\* group of the larger size; the standby groups n+1..n+k it inherited.
InitRedo ==
    /\ script = "setup_dataguard"
    /\ args \in {a \in DataguardArgs :
                    /\ a.primary = Id_ora1 /\ a.standby = Id_ora2
                    /\ a.project = "given" /\ a.zone = "given"
                    /\ ~a.skip_primary_config /\ ~a.skip_duplication}
    /\ pc = "sql"
    /\ stage = 0 /\ sub = 0
    /\ project = "given" /\ zone = "given"
    /\ names = derive_names(split_num(args.primary).num, split_num(args.standby).num)
    /\ ips = [primary |-> <<>>, standby |-> <<>>]
    /\ calls = <<>>
    /\ exit_status = -1 /\ error = ""
    /\ elapsed = 0
    /\ probe_secs = SlowProbe
    /\ IdleCred /\ IdleShell /\ IdlePath /\ IdleDb
    /\ \E n \in 1..MaxOnline, cur \in 1..MaxOnline, big \in 0..MaxOnline,
          bare \in SUBSET (1..MaxOnline), k \in 0..MaxStandbyBefore :
          /\ cur <= n /\ big <= n /\ bare \subseteq 1..n
          /\ logs = [g \in 1..n |->
                       [status |-> IF g = cur THEN "CURRENT" ELSE "INACTIVE",
                        bytes |-> IF g = big THEN 200 ELSE 50,
                        member |-> IF g \in bare
                                   THEN BareMember(names.standby_diskgroup)
                                   ELSE FullMember(names.standby_diskgroup)]]
          /\ standby_logs = [g \in (n + 1)..(n + k) |-> [bytes |-> 50]]
          /\ plsql = [pc |-> "noncurrent", faults |-> 0, stmts |-> <<>>,
                      v_invalid_count |-> 0,
                      v_online_count |-> 0, v_max_group |-> 0, v_log_size |-> 0,
                      online_before |-> n, standby_before |-> k,
                      created |-> {}]

NextRedo ==
    \/ fix_invalid_online_logs
    \/ fix_current_log
    \/ drop_standby_logs
    \/ add_standby_logs

SpecRedo == InitRedo /\ [][NextRedo]_vars

---------------------------------------------------------------------------
(* Properties of the redo-log repair *)

\* C6: after the repair of a database with N online log groups there are
\* exactly N+1 standby log groups, however many there were before.
C6_StandbyCount ==
    plsql.pc = "done" =>
        Cardinality(DOMAIN standby_logs) = Cardinality(DOMAIN logs) + 1

---------------------------------------------------------------------------
(* Properties of the workflow: configuration *)

\* main() is past its "if not project" and "if not zone" tests.
PastConfigCheck ==
    IF script = "setup_dataguard"
    THEN pc \notin {"project", "zone", "check"}
    ELSE pc \notin {"names", "project", "zone", "check"}

\* C11: while no project or no zone is determined, no address query, remote
\* command, transfer or instance create/delete has been issued, and the run
\* does not get past the configuration test other than by ending with a
\* non-zero status.
C11_NoConfigNoRemote ==
    (project = "" \/ zone = "") =>
        /\ \A i \in 1..Len(calls) : calls[i].op \notin RemoteOps
        /\ PastConfigCheck => (pc = "done" /\ exit_status # 0)

\* gcloud's configuration was asked for the zone, had none, and main() exited.
C11_Witness ==
    /\ pc = "done" /\ error = "SystemExit" /\ exit_status = 1
    /\ project # "" /\ zone = "" /\ args.zone = ""
    /\ Len(calls) >= 1 /\ calls[Len(calls)].op = "config" /\ calls[Len(calls)].rc = 0

---------------------------------------------------------------------------
(* The wait specification: wait_for_instance after create_instance, with   *)
(* probes of several durations                                             *)

\* How long one probe of an instance that is not ready may take, in seconds.
ProbeSecs == {0, 20, SlowProbe}

WaitStage == 2

InitWait ==
    /\ script = "setup_oracle"
    /\ args \in {a \in OracleArgs : ~a.skip_create /\ ~a.delete
                                      /\ a.project = "given" /\ a.zone = "given"}
    /\ pc = "stages"
    /\ stage = WaitStage /\ sub = 0
    /\ project = "given" /\ zone = "given"
    /\ names = oracle_names(args.instance)
    /\ ips = [primary |-> <<>>, standby |-> <<>>]
    /\ calls = <<>>
    /\ exit_status = -1 /\ error = ""
    /\ elapsed = 0
    /\ probe_secs \in ProbeSecs
    /\ IdleCred /\ IdleRedo /\ IdleShell /\ IdlePath /\ IdleDb

NextWait == wait_for_instance

\* Each probe returns and the loop goes on: the interpreter keeps running.
SpecWait == InitWait /\ [][NextWait]_vars /\ WF_vars(wait_for_instance)

---------------------------------------------------------------------------
(* Properties of wait_for_instance *)

Waiting == pc = "stages" /\ stage = WaitStage
LastCall(cs) == cs[Len(cs)]
Probed == Len(calls') = Len(calls) + 1 /\ LastCall(calls').op = "probe"

\* C12: wait_for_instance sleeps exactly 10 seconds after each failed probe
\* and goes on; it returns only upon a probe that exited with 0; it raises
\* TimeoutError, and only then, when the elapsed time has reached the timeout;
\* and it always ends.
C12_BoundedRetry ==
    /\ [][Waiting =>
            /\ (Probed /\ LastCall(calls').rc # 0) =>
                   /\ Waiting'
                   /\ error' = ""
                   /\ elapsed' = elapsed + probe_secs + 10
            /\ (pc' = "stages" /\ stage' # WaitStage) =>
                   (Probed /\ LastCall(calls').rc = 0)
            /\ elapsed >= 300 => (error' = "TimeoutError" /\ calls' = calls)
            /\ pc' = "done" => (error' = "TimeoutError" /\ elapsed >= 300)
         ]_vars
    /\ <>(~Waiting)

\* Thirty probes failed, ten seconds apart, and the call timed out.
C12_Witness ==
    /\ pc = "done" /\ error = "TimeoutError"
    /\ Len(calls) = 30
    /\ \A i \in 1..Len(calls) : calls[i].op = "probe" /\ calls[i].rc = 255

---------------------------------------------------------------------------
(* Properties of the workflow: the password file after the synchronisation *)

\* sync_password_file_after_duplication ran in this run and returned.
SyncCompleted ==
    /\ script = "setup_dataguard"
    /\ ~args.skip_duplication
    /\ pc \in {"stages", "done"}
    /\ stage > StageIndex(SyncFn)

\* C13: once sync_password_file_after_duplication has returned, the password
\* file of the primary and that of the standby have the same content, and no
\* later stage of the run changes either.
C13_IdenticalAfterSync ==
    /\ [](SyncCompleted => pwfile[args.primary] = pwfile[args.standby])
    /\ [][SyncCompleted => pwfile' = pwfile]_vars

\* The files differed, the primary's was copied over, and the run went on
\* to its end with the same file on both instances.
C13_Witness ==
    /\ SyncCompleted
    /\ pc = "done" /\ exit_status = 0
    /\ args.primary # args.standby
    /\ \E i \in 1..Len(calls) : calls[i].fn = SyncFn /\ calls[i].cmd = "mv"
    /\ md5.primary # md5.standby
    /\ pwfile[args.primary] # 0
    /\ pwfile[args.standby] = pwfile[args.primary]

---------------------------------------------------------------------------
(* Properties of the workflow: validation *)

\* The checks of the validation stage of each script.
AllChecks ==
    IF script = "setup_dataguard" THEN {"primary", "standby"}
    ELSE {"diskgroups", "running", "open"}

\* C14: when the validation stage has ended and a check of it failed, every
\* check of the stage was performed and reported.
C14_EveryCheckReported ==
    (pc = "done" /\ \E i \in 1..Len(report) : report[i].result = "FAIL") =>
        {report[i].check : i \in 1..Len(report)} = AllChecks

---------------------------------------------------------------------------
(* Properties of the workflow: the staged copies of the password file *)

\* setup_password_file ran in this run and returned.
SetupPasswordFileCompleted ==
    /\ script = "setup_dataguard"
    /\ ~args.skip_primary_config
    /\ pc \in {"stages", "done"}
    /\ stage > StageIndex("setup_password_file")

\* No copy of the password file is left in /tmp of the primary, of the
\* standby or of the control host.
NoStagedCopy ==
    /\ \A i \in DOMAIN tmpfile : tmpfile[i] = 0
    /\ tmp_local.orapw_dataguard = 0
    /\ tmp_local.orapw_file = 0

\* C15: once setup_password_file, or sync_password_file_after_duplication
\* on its copying path, has returned, no staged copy of the password file
\* remains on the primary, on the control host or on the standby (stated for
\* a run between two different instances).
C15_StagedCopiesDeleted ==
    (args.primary # args.standby
       /\ (SetupPasswordFileCompleted \/ SyncCompleted)) => NoStagedCopy

---------------------------------------------------------------------------
(* Properties of the workflow: the pair of instances *)

\* A command of the run has reached the cloud or an instance.
RemoteIssued == \E i \in 1..Len(calls) : calls[i].op \in RemoteOps

\* C16: a run of setup_dataguard.py that has issued a remote operation has a
\* primary and a standby that differ, with different numbers and different
\* disk groups, and one database name for both.
C16_DistinctPair ==
    (script = "setup_dataguard" /\ RemoteIssued) =>
        /\ args.primary # args.standby
        /\ names.primary_num # names.standby_num
        /\ names.primary_diskgroup # names.standby_diskgroup
        /\ names.db_name = Str_ORA \o names.primary_num

---------------------------------------------------------------------------
(* Properties of the workflow: no command is issued again *)

\* The position of the run in main(): the step before the stages, then the
\* stage and the command within it.
PcRank(p) ==
    CASE p = "names" -> IF script = "setup_oracle" THEN 0 ELSE 4
      [] p = "project" -> 1
      [] p = "zone" -> 2
      [] p = "check" -> 3
      [] p = "ip_primary" -> 5
      [] p = "ip_standby" -> 6
      [] p = "delete" -> 7
      [] p = "stages" -> 7
      [] OTHER -> 8
Before(p1, st1, sb1, p2, st2, sb2) ==
    \/ PcRank(p1) < PcRank(p2)
    \/ PcRank(p1) = PcRank(p2) /\ st1 < st2
    \/ PcRank(p1) = PcRank(p2) /\ st1 = st2 /\ sb1 < sb2

\* C17: every command but the readiness probe moves the run to a later
\* position of main(), so none is issued twice from one position; a remote
\* command that failed ends the run and nothing is issued after it; a failed
\* probe of wait_for_instance leaves the run where it is, to probe again.
C17_NoRetry ==
    [][Len(calls') > Len(calls) =>
          LET c == calls'[Len(calls')] IN
          /\ Len(calls') = Len(calls) + 1
          /\ pc # "done"
          /\ IF c.op = "probe"
             THEN c.rc # 0 => (pc' = pc /\ stage' = stage /\ sub' = sub)
             ELSE /\ Before(pc, stage, sub, pc', stage', sub')
                  /\ (c.op \in RemoteOps /\ c.rc # 0) => pc' = "done"
      ]_vars

\* A probe failed, the next one succeeded, and the run went on to its end.
C17_Witness ==
    /\ script = "setup_oracle"
    /\ pc = "done" /\ exit_status = 0
    /\ \E i \in 1..(Len(calls) - 1) :
          /\ calls[i].op = "probe" /\ calls[i].rc # 0
          /\ calls[i + 1].op = "probe" /\ calls[i + 1].rc = 0
          /\ calls[i + 1].stage = calls[i].stage


\* ---------------------------------------------------------------------
\* Order of the statements of the redo-log repair.

StatementsIssued == IF plsql.pc = "idle" THEN <<>> ELSE plsql.stmts

\* C18: the current log group is never dropped without first being
\* cleared. The non-current pass issues no statement against a group whose
\* status is CURRENT; every DROP of a group that was CURRENT directly
\* follows an accepted CLEAR of that group; and every ADD of the current
\* pass directly follows an accepted DROP of the same group number.
C18_ClearDropRecreate ==
    \A i \in 1..Len(StatementsIssued) :
        LET st == StatementsIssued[i]
            follows(op) == /\ i > 1
                           /\ StatementsIssued[i - 1].op = op
                           /\ StatementsIssued[i - 1].group = st.group
                           /\ StatementsIssued[i - 1].ok
        IN  /\ st.block = "noncurrent" => st.was.status # "CURRENT"
            /\ (st.op = "DROP" /\ st.was.status = "CURRENT") => follows("CLEAR")
            /\ (st.op = "ADD" /\ st.block = "current") => follows("DROP")

\* A repair that dropped a non-current group and then cleared, dropped and
\* recreated the current group, every statement accepted.
C18_Witness ==
    /\ \E i \in 1..Len(StatementsIssued) :
          /\ StatementsIssued[i].block = "noncurrent"
          /\ StatementsIssued[i].op = "DROP"
    /\ \E i \in 1..Len(StatementsIssued) :
          /\ StatementsIssued[i].block = "current"
          /\ StatementsIssued[i].op = "ADD"
          /\ StatementsIssued[i].ok
          /\ StatementsIssued[i].was.status = "CURRENT"


\* ---------------------------------------------------------------------
\* Sizes of the recreated groups.

\* C19: every online group dropped for an invalid path is recreated with
\* the size that group had before it was dropped, and every standby group
\* the repair created has the largest online log-group size.
C19_RecreatedWithOwnSize ==
    /\ \A i \in 1..Len(StatementsIssued) :
          StatementsIssued[i].op = "ADD" =>
              StatementsIssued[i].size = StatementsIssued[i].was.bytes
    /\ (plsql.pc = "done" /\ DOMAIN logs # {}) =>
          \A g \in plsql.created :
              standby_logs[g].bytes = Max({logs[h].bytes : h \in DOMAIN logs})


\* The second half of C19 alone: the standby groups the repair created
\* have the largest online log-group size.
StandbyGroupsHaveLargestSize ==
    (plsql.pc = "done" /\ DOMAIN logs # {}) =>
        \A g \in plsql.created :
            standby_logs[g].bytes = Max({logs[h].bytes : h \in DOMAIN logs})


\* ---------------------------------------------------------------------
\* The parameters of the stages after the skippable blocks.

\* C20: the parameters handed to start_managed_recovery, enable_log_shipping
\* and validate_dataguard are determined by the two identifiers alone: in
\* every run, whatever its skip flags, they are the database name and the
\* unique names built from the primary's number and the standby's address,
\* so two runs with the same identifiers that differ only in their skip
\* flags hand over the same parameters.
C20_ParamsIndependentOfSkips ==
    script = "setup_dataguard" =>
        \A i \in 1..Len(calls) :
            LET c == calls[i]
                db == Str_ORA \o split_num(args.primary).num
                stby == db \o Str_STBY
            IN  /\ c.fn = "start_managed_recovery" =>
                      c.target = args.standby /\ c.params = <<db>>
                /\ c.fn = "enable_log_shipping" =>
                      /\ c.target = args.primary
                      /\ c.params = <<IpOf(args.standby), db, stby>>
                /\ c.fn = "validate_dataguard" =>
                      /\ c.target \in {args.primary, args.standby}
                      /\ c.params = <<db, db, stby>>

\* A run that skipped both blocks and still went through the three later
\* stages to the end, for two different instances.
C20_Witness ==
    /\ script = "setup_dataguard"
    /\ args.skip_primary_config /\ args.skip_duplication
    /\ args.primary # args.standby
    /\ pc = "done" /\ exit_status = 0
    /\ \A fn \in {"start_managed_recovery", "enable_log_shipping",
                  "validate_dataguard"} : CallsOf(fn) # <<>>
    /\ CallsOf("create_standby_pfile") = <<>>
    /\ CallsOf("configure_tns_entries") = <<>>


\* ---------------------------------------------------------------------
\* setup_oracle.py: waiting for the instance after its creation and reset.

\* The instance was created or reset by command i.
Restarts(i) == calls[i].op \in {"create", "reset"} /\ calls[i].rc = 0

\* C21: in setup_oracle, after the instance was created and after the
\* kernel stage reset it, every command other than the probe comes after a
\* probe that succeeded since; and after the wait timed out the run has
\* ended with its last command a failed probe.
C21_WaitBeforeNextStage ==
    script = "setup_oracle" =>
        /\ \A i \in 1..Len(calls) : \A j \in (i + 1)..Len(calls) :
              (Restarts(i) /\ calls[j].op # "probe") =>
                  \E k \in (i + 1)..(j - 1) :
                      calls[k].op = "probe" /\ calls[k].rc = 0
        /\ error = "TimeoutError" =>
              /\ pc = "done" /\ exit_status = 1
              /\ calls # <<>>
              /\ calls[Len(calls)].op = "probe"
              /\ calls[Len(calls)].rc # 0

\* A run that created the instance, waited through a failed probe, reset
\* the instance, waited again and went on to the installation.
C21_Witness ==
    /\ script = "setup_oracle"
    /\ \E i, j \in 1..Len(calls) :
          /\ i < j
          /\ calls[i].op = "create" /\ calls[i].rc = 0
          /\ calls[i + 1].op = "probe" /\ calls[i + 1].rc # 0
          /\ calls[j].op = "reset" /\ calls[j].rc = 0
    /\ CallsOf("setup_prerequisites") # <<>>

\* A run whose wait timed out after the reset.
C21_TimedOutReached ==
    /\ script = "setup_oracle"
    /\ error = "TimeoutError"
    /\ \E i \in 1..Len(calls) : calls[i].op = "reset"


\* ---------------------------------------------------------------------
\* The password file after setup_password_file.

\* C22: once setup_password_file has returned, no later operation of the
\* run changes the password file of either instance, and the standby's
\* stays identical to the primary's until the run ends (stated for a run
\* between two different instances).
C22_LastToTouchPasswordFile ==
    /\ []((SetupPasswordFileCompleted /\ args.primary # args.standby) =>
             pwfile[args.primary] = pwfile[args.standby])
    /\ [][(SetupPasswordFileCompleted /\ args.primary # args.standby) =>
             pwfile' = pwfile]_vars

\* The part of C22 about later operations alone.
NoneRegeneratesAfterSetup ==
    [][(SetupPasswordFileCompleted /\ args.primary # args.standby) =>
          pwfile' = pwfile]_vars


---------------------------------------------------------------------------
(* configure_primary_for_dataguard: the standby redo logs of the primary *)

\* How many times the stage is run on one primary.
MaxConfigRuns == 2

\* The group number the database gives to a log file added without one:
\* the lowest number not in use.
NextFree(used) ==
    CHOOSE n \in 1..(Cardinality(used) + 1) :
        n \notin used /\ \A m \in 1..(n - 1) : m \in used

\* count accepted "ALTER DATABASE ADD STANDBY LOGFILE SIZE size" statements.
RECURSIVE AddStandbyLogfiles(_, _, _)
AddStandbyLogfiles(stby, count, size) ==
    IF count = 0 THEN stby
    ELSE LET g == NextFree(DOMAIN logs \cup DOMAIN stby)
         IN  AddStandbyLogfiles(
                 [h \in DOMAIN stby \cup {g} |->
                     IF h = g THEN [bytes |-> size] ELSE stby[h]],
                 count - 1, size)

\* The PL/SQL block of configure_primary_for_dataguard. "SELECT BYTES,
\* COUNT(*) INTO ... GROUP BY BYTES" returns one row per size: with one
\* size it gives v_log_size and v_groups, with several it raises
\* TOO_MANY_ROWS out of the block, which has no handler. The loop then adds
\* v_groups + 1 standby log files without a group number, each refusal
\* caught by the handler of its iteration.
create_standby_redo_logs ==
    /\ plsql.pc = "primary_logs"
    /\ plsql.runs < MaxConfigRuns
    /\ LET sizes == {logs[g].bytes : g \in DOMAIN logs}
           v_groups == Cardinality(DOMAIN logs)
       IN  IF Cardinality(sizes) # 1
           THEN /\ standby_logs' = standby_logs
                /\ plsql' = [plsql EXCEPT !.runs = @ + 1,
                                          !.raised = "TOO_MANY_ROWS"]
           ELSE \E refused \in 0..(v_groups + 1) :
                  /\ CanFail(refused)
                  /\ standby_logs' =
                        AddStandbyLogfiles(standby_logs,
                            v_groups + 1 - refused, Max(sizes))
                  /\ plsql' = [plsql EXCEPT !.runs = @ + 1,
                                            !.raised = "",
                                            !.faults = @ + refused]
    /\ UNCHANGED <<runVars, credVars, waitVars, shellVars, pathVars, dbVars, logs>>

\* A primary with 1..n online groups, at most one of them of the larger
\* size, and no standby redo logs.
InitPrimaryLogs ==
    /\ script = "setup_dataguard"
    /\ args \in {a \in DataguardArgs :
                    /\ a.primary = Id_ora1 /\ a.standby = Id_ora2
                    /\ a.project = "given" /\ a.zone = "given"
                    /\ ~a.skip_primary_config}
    /\ pc = "sql"
    /\ stage = 0 /\ sub = 0
    /\ project = "given" /\ zone = "given"
    /\ names = derive_names(split_num(args.primary).num, split_num(args.standby).num)
    /\ ips = [primary |-> <<>>, standby |-> <<>>]
    /\ calls = <<>>
    /\ exit_status = -1 /\ error = ""
    /\ elapsed = 0
    /\ probe_secs = SlowProbe
    /\ IdleCred /\ IdleShell /\ IdlePath /\ IdleDb
    /\ \E n \in 1..MaxOnline, cur \in 1..MaxOnline, big \in 0..MaxOnline :
          /\ cur <= n /\ big <= n
          /\ logs = [g \in 1..n |->
                       [status |-> IF g = cur THEN "CURRENT" ELSE "INACTIVE",
                        bytes |-> IF g = big THEN 200 ELSE 50,
                        member |-> FullMember(names.primary_diskgroup)]]
          /\ standby_logs = <<>>
          /\ plsql = [pc |-> "primary_logs", runs |-> 0, faults |-> 0,
                      raised |-> ""]

NextPrimaryLogs == create_standby_redo_logs

SpecPrimaryLogs == InitPrimaryLogs /\ [][NextPrimaryLogs]_vars

\* C23: after configure_primary_for_dataguard has run on a primary with N
\* online redo log groups, once or again, the primary has exactly N + 1
\* standby redo log groups.
C23_PrimaryStandbyCount ==
    (plsql.pc = "primary_logs" /\ plsql.runs >= 1) =>
        Cardinality(DOMAIN standby_logs) = Cardinality(DOMAIN logs) + 1

\* The same for the first run alone, with every statement accepted and
\* online groups of one size.
FirstRunGivesOneMore ==
    (/\ plsql.pc = "primary_logs" /\ plsql.runs = 1 /\ plsql.faults = 0
     /\ plsql.raised = "") =>
        Cardinality(DOMAIN standby_logs) = Cardinality(DOMAIN logs) + 1


---------------------------------------------------------------------------
(* Properties of the workflow: the parameters of the primary database *)

Range(f) == {f[i] : i \in DOMAIN f}

\* C24: whenever a stage of the run has set the Data Guard configuration
\* list of the primary, the list contains the resolved unique name of the
\* primary and that of the standby.
C24_DgConfigHasBothNames ==
    (script = "setup_dataguard" /\ primary_db.dg_config # <<>>) =>
        /\ names.primary_db_unique_name \in Range(primary_db.dg_config)
        /\ names.standby_db_unique_name \in Range(primary_db.dg_config)

\* The same after configure_primary_for_dataguard, before the run reaches
\* enable_log_shipping.
DgConfigAfterPrimaryConfig ==
    (/\ script = "setup_dataguard" /\ primary_db.dg_config # <<>>
     /\ CallsOf("enable_log_shipping") = <<>>) =>
        /\ names.primary_db_unique_name \in Range(primary_db.dg_config)
        /\ names.standby_db_unique_name \in Range(primary_db.dg_config)


\* The stage function fn of setup_dataguard.py returned in this run.
Returned(fn) == StageSucceeded(StageIndex(fn))

\* C25: a step of the run switches LOG_ARCHIVE_DEST_STATE_2 of the primary
\* to ENABLE only after start_managed_recovery has returned and, when the
\* duplication is not skipped, after duplicate_database,
\* sync_password_file_after_duplication, fix_standby_redo_logs and
\* register_standby_with_cluster have returned; and from the return of
\* configure_primary_for_dataguard until enable_log_shipping is issued the
\* destination is deferred.
C25_ShippingAfterRecovery ==
    /\ [][(/\ script = "setup_dataguard"
           /\ primary_db' # primary_db
           /\ primary_db'.dest_state_2 = "ENABLE") =>
             /\ Returned("start_managed_recovery")
             /\ ~args.skip_duplication =>
                   \A fn \in {"duplicate_database", SyncFn,
                              "fix_standby_redo_logs",
                              "register_standby_with_cluster"} : Returned(fn)]_vars
    /\ []((/\ script = "setup_dataguard"
           /\ Returned("configure_primary_for_dataguard")
           /\ CallsOf("enable_log_shipping") = <<>>) =>
             primary_db.dest_state_2 = "DEFER")

\* A run without skip flags between two instances: the destination was
\* deferred, the standby was built, and enable_log_shipping
\* switched the destination on.
C25_Witness ==
    /\ script = "setup_dataguard"
    /\ ~args.skip_primary_config /\ ~args.skip_duplication
    /\ args.primary # args.standby
    /\ Returned("configure_primary_for_dataguard")
    /\ Returned("register_standby_with_cluster")
    /\ Returned("enable_log_shipping")
    /\ primary_db.dest_state_2 = "ENABLE"


---------------------------------------------------------------------------
(* Properties of the workflow: the target of the destructive stages *)

\* The stages that destroy what is on their target: the removal of the old
\* database, the start of an empty instance, the drop and clear of log
\* groups in the redo-log repair.
DestructiveFns ==
    {"remove_standby_database", "start_standby_nomount", "fix_standby_redo_logs"}

\* C26: every command of a destructive stage is issued to the standby and
\* never to the instance that serves as the primary.
C26_DestructiveOnlyOnStandby ==
    script = "setup_dataguard" =>
        \A i \in 1..Len(calls) :
            calls[i].fn \in DestructiveFns =>
                /\ calls[i].target = args.standby
                /\ calls[i].target # args.primary

\* The same for the runs between two different instances.
DestructiveOnStandbyOfPair ==
    (script = "setup_dataguard" /\ args.primary # args.standby) =>
        \A i \in 1..Len(calls) :
            calls[i].fn \in DestructiveFns =>
                /\ calls[i].target = args.standby
                /\ calls[i].target # args.primary


---------------------------------------------------------------------------
(* Properties of name resolution: the two scripts on one identifier *)

\* setup_oracle.py accepted its identifier and derived its names.
OracleDerived ==
    /\ script = "setup_oracle"
    /\ pc # "names"
    /\ parse_instance_number(args.instance).ok

\* What setup_dataguard.py derives for the identifier id given as primary
\* and as standby: the database and disk group of the primary, the old
\* database and the disk group of the standby.
DataguardNamesFor(id) ==
    LET n == derive_names(split_num(id).num, split_num(id).num)
    IN  [db_name |-> n.db_name,
         primary_diskgroup |-> n.primary_diskgroup,
         standby_old_db |-> Str_ORA \o n.standby_num,
         standby_diskgroup |-> n.standby_diskgroup]

\* C27: for every identifier setup_oracle.py accepted, the database name
\* and the disk group it derived are the ones setup_dataguard.py derives
\* for that identifier, as primary and as standby.
C27_SameNamesInBothScripts ==
    OracleDerived =>
        LET d == DataguardNamesFor(args.instance) IN
        /\ split_num(args.instance).ok
        /\ d.db_name = names.db_name
        /\ d.standby_old_db = names.db_name
        /\ d.primary_diskgroup = names.primary_diskgroup
        /\ d.standby_diskgroup = names.primary_diskgroup

\* The same for the identifiers of the form ora-<number>.
SameNamesForOraNumber ==
    (OracleDerived /\ IsOraNumber(args.instance)) =>
        LET d == DataguardNamesFor(args.instance) IN
        /\ split_num(args.instance).ok
        /\ d.db_name = names.db_name
        /\ d.standby_old_db = names.db_name
        /\ d.primary_diskgroup = names.primary_diskgroup
        /\ d.standby_diskgroup = names.primary_diskgroup


---------------------------------------------------------------------------
(* Properties of the redo-log repair: the online groups *)

\* C28: throughout the repair and after it the database has the online
\* group numbers it had before, and the count read for the standby groups
\* is the count that existed before the repair.
C28_OnlineGroupsPreserved ==
    plsql.pc \in {"noncurrent", "current", "drop_standby", "add_standby", "done"} =>
        /\ DOMAIN logs = 1..plsql.online_before
        /\ plsql.pc \in {"add_standby", "done"} =>
              plsql.v_online_count = plsql.online_before

\* The same for the repairs in which the database refused no statement.
OnlineGroupsPreservedWithoutFaults ==
    (/\ plsql.pc \in {"noncurrent", "current", "drop_standby", "add_standby", "done"}
     /\ plsql.faults = 0) =>
        /\ DOMAIN logs = 1..plsql.online_before
        /\ plsql.pc \in {"add_standby", "done"} =>
              plsql.v_online_count = plsql.online_before

====
